---- MODULE Spec2Model ----
(***************************************************************************)
(* A model of gobox: the session engine (internal/session), the state      *)
(* store (internal/core), the line rewriter (internal/rewrite,             *)
(* internal/parser) and the TUI driver (internal/tui).                     *)
(*                                                                         *)
(* Time is counted in ticker periods (one second): `now` is time.Now().    *)
(***************************************************************************)
EXTENDS Integers, Sequences, FiniteSets, TLC

\* ------------------------------------------------------------------ bounds
\* The tasks of the document (their hashes are 1..MaxTasks).
MaxTasks == 2
\* The longest document, in bytes.
MaxDocLen == 4
\* How often the program is started again after it has quit.
MaxRestarts == 2
\* The clock stops advancing at MaxTime.
MaxTime == 3
\* At most MaxWorkers tick workers (goroutines) are spawned by Start/Resume.
MaxWorkers == 2
\* The short timebox the sessions are given (the tests use 2s and 3s).
ShortBox == 2

MaxBoxLen == 5

MaxPolls == 3

MaxPollLen == 2

MaxStops == 2

\* ------------------------------------------------------- program constants
\* make(chan SessionEvent, 10)
EventChCap == 10
\* TimeSegment.End == nil
NoEnd == -1
\* make(chan string, 10)
CommitsChCap == 10
\* make(chan error, 2)
ErrorChCap == 2
\* commit[:8]
HashLen == 8

Workers == 1..MaxWorkers

VARIABLES
    now,        \* time.Now()
    States,     \* the ledger list: a sequence of [TaskHash, Segments]
    srState,    \* sr.State: the index in States of the runner's entry
    Duration,   \* sr.Duration (0: not duration-based)
    EndTime,    \* sr.EndTime (0: the zero time)
    Paused,     \* sr.Paused
    Completed,  \* sr.Completed
    Ticker,     \* sr.Ticker: the id of the current ticker, 0 for nil
    tickers,    \* each ticker: [active, C]; C is its channel (capacity 1)
    eventCh,    \* sr.eventCh, a buffered channel
    stopCh,     \* sr.stopCh: "open" or "closed"
    mutex,      \* sr.Mutex: "free", or the call that holds it while blocked
    wpc,        \* each tick worker's position
    wsel,       \* the ticker whose channel the worker's select waits on
    nSpawned,   \* number of tick workers spawned so far (sr.wg.Add calls)
    reading,    \* whether somebody is receiving from Events()
    hist        \* history: what the engine has done so far

engineVars == <<now, States, srState, Duration, EndTime, Paused, Completed,
                Ticker, tickers, eventCh, stopCh, mutex, wpc, wsel, nSpawned,
                reading, hist>>

VARIABLES
    disk,        \* the state file: [exists, data], data a sequence of tokens
    savePc,      \* FileStateStore.Save: "idle", or "created" after os.Create
    saveArg,     \* the list the current or last Save was given
    lastSaved,   \* the list of the last Save that returned nil
    saveOutcome, \* how the last Save ended: "none", "ok", "error", "crash"
    loaded       \* what the last Load returned: [err, states]

storeVars == <<disk, savePc, saveArg, lastSaved, saveOutcome, loaded>>

VARIABLES
    file,        \* the markdown document: a sequence of bytes
    rwOrig,      \* the document before the rewrite
    rwRes        \* the rewrite's call and result: [op, err, wrote, dur, commits]

rwVars == <<file, rwOrig, rwRes>>

VARIABLES
    ActiveView,   \* m.ActiveView
    SessionState, \* m.SessionState: an index in States, 0 for nil
    proc,         \* the process: "up", or "down" after tea.Quit
    msgs,         \* the messages waiting for Update
    teaTick,      \* whether a tea.Tick timer is armed
    restarts,     \* how often the program has been started again
    checked       \* the tasks checked in the document

tuiVars == <<ActiveView, SessionState, proc, msgs, teaTick, restarts, checked>>

VARIABLE probe \* the last query or pure call: [op, arg, h, val]

VARIABLES
    mem,         \* an InMemoryStateStore and its caller, next to a file store
    gw,          \* a GitWatcher, its worker and the reader of its channels
    cli,         \* the command-line driver: its position and what it returned
    tw,          \* the driver's timer worker and the main thread that stops it
    taskString   \* Task.String: the line rendered for each task value

newVars == <<mem, gw, cli, tw, taskString>>

auxVars == <<probe, newVars>>

\* the variables of the components other than the session engine
restVars == <<storeVars, rwVars, tuiVars, auxVars>>

vars == <<engineVars, restVars>>

\* ----------------------------------------------------------------- helpers
OpenSeg(t) == [Start |-> t, End |-> NoEnd]

Segs == States[srState].Segments

\* state.TimeBoxState.IsActive
IsActive(segs) == Len(segs) > 0 /\ segs[Len(segs)].End = NoEnd

\* A faulty close that leaves the open segment open (the ledger properties
\* must tell it from CloseLast).
KeepOpen(segs, t) == segs

\* "if last.End == nil { last.End = &now }" of Pause and Complete
CloseLast(segs, t) ==
    IF IsActive(segs) THEN [segs EXCEPT ![Len(segs)].End = t] ELSE segs

RECURSIVE SumSegs(_, _)
SumSegs(segs, t) ==
    IF segs = <<>> THEN 0
    ELSE LET s == Head(segs)
         IN (IF s.End # NoEnd THEN s.End - s.Start ELSE t - s.Start)
            + SumSegs(Tail(segs), t)

\* SessionRunner.TotalElapsed
TotalElapsed == SumSegs(Segs, now)

\* SessionRunner.isTimeUp
isTimeUp ==
    IF Duration > 0 THEN SumSegs(Segs, now) >= Duration
    ELSE IF EndTime # 0 THEN now > EndTime
    ELSE FALSE

\* A Remaining without the "return 0" clamps: the plain differences.
RemainingUnclamped ==
    IF Duration > 0 THEN Duration - SumSegs(Segs, now)
    ELSE IF EndTime # 0 THEN EndTime - now
    ELSE 0

\* SessionRunner.Remaining, the value it returns once it has the mutex
Remaining ==
    IF Completed THEN 0
    ELSE IF Duration > 0
    THEN LET elapsed == TotalElapsed
         IN IF elapsed >= Duration THEN 0 ELSE Duration - elapsed
    ELSE IF EndTime # 0
    THEN LET remaining == EndTime - now
         IN IF remaining < 0 THEN 0 ELSE remaining
    ELSE 0

\* Ticker.Stop(): no further tick is sent. A tick already in the channel is
\* dropped by runtimes with synchronous timer channels and kept by older ones.
StopTicker(tk, id) ==
    IF id = 0 THEN {tk}
    ELSE {[tk EXCEPT ![id] = [active |-> FALSE, C |-> c]] : c \in {0, tk[id].C}}

\* time.NewTicker + wg.Add(1) + go func(): worker w enters its select on the
\* new ticker's channel
Spawn(w, tk) ==
    /\ Ticker' = w
    /\ tickers' = [tk EXCEPT ![w] = [active |-> TRUE, C |-> 0]]
    /\ wpc' = [wpc EXCEPT ![w] = "select"]
    /\ wsel' = [wsel EXCEPT ![w] = w]
    /\ nSpawned' = w

HasRoom(ch) == Len(ch) < EventChCap

\* a non-blocking send: select { case ch <- ev: default: }
TrySend(ch, ev) == IF HasRoom(ch) THEN Append(ch, ev) ELSE ch

Bump(h, f) == [h EXCEPT ![f] = @ + 1]

\* -------------------------------------------------------- the session engine
\* A mutation of StartSegs: Start opens no segment.
StartSegsNone(segs, t) == segs

\* "Start a new segment if not already running" of Start
StartSegs(segs, t) ==
    IF Len(segs) = 0 \/ segs[Len(segs)].End # NoEnd
    THEN Append(segs, OpenSeg(t)) ELSE segs

\* SessionRunner.Start
Start ==
    /\ mutex = "free"
    /\ ~(Paused \/ Completed)
    /\ nSpawned < MaxWorkers
    /\ States' = [States EXCEPT ![srState].Segments = StartSegs(@, now)]
    /\ Spawn(nSpawned + 1, tickers)
    /\ hist' = [hist EXCEPT !.started = TRUE]
    /\ UNCHANGED <<now, srState, Duration, EndTime, Paused, Completed,
                   eventCh, stopCh, mutex, reading>>

\* SessionRunner.Pause: the send of EventPaused blocks, with the mutex held,
\* while the event channel is full.
Pause ==
    /\ mutex = "free"
    /\ ~(Paused \/ Completed)
    /\ States' = [States EXCEPT ![srState].Segments = CloseLast(@, now)]
    /\ Paused' = TRUE
    /\ tickers' \in StopTicker(tickers, Ticker)
    /\ IF HasRoom(eventCh)
       THEN /\ eventCh' = Append(eventCh, "Paused")
            /\ mutex' = "free"
       ELSE /\ mutex' = "Pause"
            /\ UNCHANGED eventCh
    /\ UNCHANGED <<now, srState, Duration, EndTime, Completed, Ticker,
                   stopCh, wpc, wsel, nSpawned, reading, hist>>

\* SessionRunner.Resume: the send of EventResumed blocks in the same way.
Resume ==
    /\ mutex = "free"
    /\ Paused /\ ~Completed
    /\ nSpawned < MaxWorkers
    /\ States' = [States EXCEPT ![srState].Segments = Append(@, OpenSeg(now))]
    /\ Paused' = FALSE
    /\ Spawn(nSpawned + 1, tickers)
    /\ IF HasRoom(eventCh)
       THEN /\ eventCh' = Append(eventCh, "Resumed")
            /\ mutex' = "free"
       ELSE /\ mutex' = "Resume"
            /\ UNCHANGED eventCh
    /\ hist' = IF hist.started THEN Bump(hist, "cycles") ELSE hist
    /\ UNCHANGED <<now, srState, Duration, EndTime, Completed, stopCh, reading>>

\* The blocked send of Pause or Resume goes through once there is room.
BlockedSend ==
    /\ mutex \in {"Pause", "Resume"}
    /\ HasRoom(eventCh)
    /\ eventCh' = Append(eventCh, IF mutex = "Pause" THEN "Paused" ELSE "Resumed")
    /\ mutex' = "free"
    /\ UNCHANGED <<now, States, srState, Duration, EndTime, Paused, Completed,
                   Ticker, tickers, stopCh, wpc, wsel, nSpawned, reading, hist>>

\* The body of SessionRunner.Complete past its "if sr.Completed" guard;
\* byTimer tells the tick worker's call from an outside call.
CompleteBody(byTimer) ==
    /\ States' = [States EXCEPT ![srState].Segments = CloseLast(@, now)]
    /\ Completed' = TRUE
    /\ tickers' \in StopTicker(tickers, Ticker)
    /\ LET h0 == IF IsActive(Segs) THEN Bump(hist, "completeCloses") ELSE hist
           h == IF byTimer THEN [h0 EXCEPT !.timerCompleted = TRUE] ELSE h0
       IN IF stopCh = "closed"
          THEN /\ hist' = h
               /\ UNCHANGED <<eventCh, stopCh>>
          ELSE /\ stopCh' = "closed"
               /\ eventCh' = TrySend(eventCh, "Completed")
               /\ hist' = IF HasRoom(eventCh) THEN Bump(h, "completed") ELSE h

\* SessionRunner.Complete called from outside (the user's "complete early")
Complete ==
    /\ mutex = "free"
    /\ ~Completed
    /\ CompleteBody(FALSE)
    /\ UNCHANGED <<now, srState, Duration, EndTime, Paused, Ticker, mutex,
                   wpc, wsel, nSpawned, reading>>

\* SessionRunner.Stop
Stop ==
    /\ mutex = "free"
    /\ ~Completed
    /\ tickers' \in StopTicker(tickers, Ticker)
    /\ IF stopCh = "closed"
       THEN UNCHANGED <<eventCh, stopCh, hist>>
       ELSE /\ stopCh' = "closed"
            /\ eventCh' = TrySend(eventCh, "Stopped")
            /\ hist' = IF HasRoom(eventCh)
                       THEN Bump(Bump(hist, "stopCloses"), "stopped")
                       ELSE Bump(hist, "stopCloses")
    /\ UNCHANGED <<now, States, srState, Duration, EndTime, Paused, Completed,
                   Ticker, mutex, wpc, wsel, nSpawned, reading>>

\* ------------------------------------------------------------ the tick worker
\* select { case <-sr.Ticker.C:
WorkerTick(w) ==
    /\ wpc[w] = "select"
    /\ tickers[wsel[w]].C = 1
    /\ tickers' = [tickers EXCEPT ![wsel[w]].C = 0]
    /\ wpc' = [wpc EXCEPT ![w] = "send"]
    /\ UNCHANGED <<now, States, srState, Duration, EndTime, Paused, Completed,
                   Ticker, eventCh, stopCh, mutex, wsel, nSpawned, reading, hist>>

\* case <-sr.stopCh: return }
WorkerStopped(w) ==
    /\ wpc[w] = "select"
    /\ stopCh = "closed"
    /\ wpc' = [wpc EXCEPT ![w] = "done"]
    /\ UNCHANGED <<now, States, srState, Duration, EndTime, Paused, Completed,
                   Ticker, tickers, eventCh, stopCh, mutex, wsel, nSpawned,
                   reading, hist>>

\* sr.eventCh <- EventTick: a blocking send
WorkerSend(w) ==
    /\ wpc[w] = "send"
    /\ HasRoom(eventCh)
    /\ eventCh' = Append(eventCh, "Tick")
    /\ wpc' = [wpc EXCEPT ![w] = "check"]
    /\ UNCHANGED <<now, States, srState, Duration, EndTime, Paused, Completed,
                   Ticker, tickers, stopCh, mutex, wsel, nSpawned, reading, hist>>

\* if sr.isTimeUp() { ... }: otherwise the loop enters the select again, which
\* evaluates sr.Ticker.C anew
WorkerCheck(w) ==
    /\ wpc[w] = "check"
    /\ IF isTimeUp
       THEN /\ wpc' = [wpc EXCEPT ![w] = "complete"]
            /\ UNCHANGED wsel
       ELSE /\ wpc' = [wpc EXCEPT ![w] = "select"]
            /\ wsel' = [wsel EXCEPT ![w] = Ticker]
    /\ UNCHANGED <<now, States, srState, Duration, EndTime, Paused, Completed,
                   Ticker, tickers, eventCh, stopCh, mutex, nSpawned, reading,
                   hist>>

\* sr.Complete(); return
WorkerComplete(w) ==
    /\ wpc[w] = "complete"
    /\ mutex = "free"
    /\ IF Completed
       THEN UNCHANGED <<States, Completed, tickers, eventCh, stopCh, hist>>
       ELSE CompleteBody(TRUE)
    /\ wpc' = [wpc EXCEPT ![w] = "done"]
    /\ UNCHANGED <<now, srState, Duration, EndTime, Paused, Ticker, mutex,
                   wsel, nSpawned, reading>>

\* ------------------------------------------------------------- environment
\* Some call on the runner has taken effect.
Touched == Ticker # 0 \/ Paused \/ Completed \/ stopCh = "closed"

\* The session is in the Running state of the engine's state machine: Start
\* or Resume has made a ticker, and no Pause, Complete or Stop came after.
Running == Ticker # 0 /\ ~Paused /\ ~Completed /\ stopCh = "open"

\* SessionRunner.Wait would return: every worker counted by wg has finished.
WaitReturns == \A w \in Workers : wpc[w] \in {"none", "done"}

\* One second passes: every running ticker puts a tick in its channel
\* (dropped when the channel still holds the previous one). Time is counted
\* from the first call on the runner; in the TUI it also passes while the
\* program is down or shows a view other than the task list.
Advance(limit) ==
    /\ Touched \/ proc = "down" \/ ActiveView # "ViewTaskList"
    /\ now < limit
    /\ now' = now + 1
    /\ tickers' = [t \in Workers |->
                     IF tickers[t].active THEN [tickers[t] EXCEPT !.C = 1]
                     ELSE tickers[t]]
    /\ hist' = IF Running THEN Bump(hist, "runTime") ELSE hist
    /\ UNCHANGED <<States, srState, Duration, EndTime, Paused, Completed,
                   Ticker, eventCh, stopCh, mutex, wpc, wsel, nSpawned, reading>>

\* The reader of Events() takes the next event.
Consume ==
    /\ reading
    /\ eventCh # <<>>
    /\ eventCh' = Tail(eventCh)
    /\ UNCHANGED <<now, States, srState, Duration, EndTime, Paused, Completed,
                   Ticker, tickers, stopCh, mutex, wpc, wsel, nSpawned, reading,
                   hist>>

\* A reader starts receiving from a full channel. (A reader that comes to a
\* channel with room, and drains it, leads to the states that a reader who
\* received from the start leads to: no send has blocked or been dropped.)
ReaderReturns ==
    /\ ~reading
    /\ ~HasRoom(eventCh)
    /\ reading' = TRUE
    /\ UNCHANGED <<now, States, srState, Duration, EndTime, Paused, Completed,
                   Ticker, tickers, eventCh, stopCh, mutex, wpc, wsel, nSpawned,
                   hist>>

\* started: Start took effect; cycles: Resume calls that took effect on a
\* started session; runTime: seconds spent Running; completed, stopped: the
\* Completed and Stopped events put on the channel; stopCloses: closes of
\* stopCh by Stop; completeCloses: segments closed by Complete.
InitHist == [started |-> FALSE, timerCompleted |-> FALSE, runTime |-> 0,
             cycles |-> 0, completed |-> 0, stopped |-> 0, stopCloses |-> 0,
             completeCloses |-> 0]

\* NewSessionRunner(task, tbState, duration, endTime) over an empty ledger
\* entry, as the tests build it; the caller receives the events (as the tests
\* do) or does not.
InitEngine(boxes, readers) ==
    /\ now = 0
    /\ States = <<[TaskHash |-> 1, Segments |-> <<>>]>>
    /\ srState = 1
    /\ \E box \in boxes : Duration = box[1] /\ EndTime = box[2]
    /\ Paused = FALSE
    /\ Completed = FALSE
    /\ Ticker = 0
    /\ tickers = [t \in Workers |-> [active |-> FALSE, C |-> 0]]
    /\ eventCh = <<>>
    /\ stopCh = "open"
    /\ mutex = "free"
    /\ wpc = [w \in Workers |-> "none"]
    /\ wsel = [w \in Workers |-> 0]
    /\ nSpawned = 0
    /\ reading \in readers
    /\ hist = InitHist

WorkerStep(w) ==
    \/ WorkerTick(w)
    \/ WorkerStopped(w)
    \/ WorkerSend(w)
    \/ WorkerCheck(w)
    \/ WorkerComplete(w)

\* ------------------------------------------------------------ the state store
\* The ledger lists given to Save: at most one entry per task, each with no
\* segment, a closed one or an open one.
StoreSegs == {<<>>, <<[Start |-> 0, End |-> 1]>>, <<OpenSeg(0)>>}

StoreStates == [TaskHash : 1..MaxTasks, Segments : StoreSegs]

StoreLists ==
    {<<>>} \cup {<<a>> : a \in StoreStates}
           \cup {<<p[1], p[2]>> : p \in {q \in StoreStates \X StoreStates :
                                              q[1].TaskHash < q[2].TaskHash}}

Tok(k, a, b) == [k |-> k, a |-> a, b |-> b]

\* An encoder that leaves out the segments that have no End.
EncodeStateClosed(st) ==
    <<Tok("{", st.TaskHash, 0)>>
        \o SelectSeq([i \in 1..Len(st.Segments) |->
                        Tok("seg", st.Segments[i].Start, st.Segments[i].End)],
                     LAMBDA t : t.b # NoEnd)
        \o <<Tok("}", 0, 0)>>

EncodeState(st) ==
    <<Tok("{", st.TaskHash, 0)>>
        \o [i \in 1..Len(st.Segments) |->
                Tok("seg", st.Segments[i].Start, st.Segments[i].End)]
        \o <<Tok("}", 0, 0)>>

RECURSIVE EncodeStates(_)
EncodeStates(states) ==
    IF states = <<>> THEN <<>>
    ELSE EncodeState(Head(states)) \o EncodeStates(Tail(states))

\* json.NewEncoder(f).Encode(states): the whole text, handed to one Write
Encode(states) == <<Tok("[", 0, 0)>> \o EncodeStates(states) \o <<Tok("]", 0, 0)>>

\* json.Decoder.Decode over the tokens after "[": inState tells whether an
\* entry is open; running out of tokens is "unexpected EOF".
RECURSIVE DecodeItems(_, _, _, _)
DecodeItems(toks, acc, inState, cur) ==
    IF toks = <<>> THEN [err |-> "unexpected EOF", states |-> <<>>]
    ELSE LET t == Head(toks)
         IN IF inState
            THEN IF t.k = "seg"
                 THEN DecodeItems(Tail(toks), acc, TRUE,
                        [cur EXCEPT !.Segments =
                            Append(@, [Start |-> t.a, End |-> t.b])])
                 ELSE IF t.k = "}"
                 THEN DecodeItems(Tail(toks), Append(acc, cur), FALSE, cur)
                 ELSE [err |-> "syntax", states |-> <<>>]
            ELSE IF t.k = "{"
                 THEN DecodeItems(Tail(toks), acc, TRUE,
                        [TaskHash |-> t.a, Segments |-> <<>>])
                 ELSE IF t.k = "]"
                 THEN [err |-> "", states |-> acc]
                 ELSE [err |-> "syntax", states |-> <<>>]

Decode(toks) ==
    IF toks = <<>> THEN [err |-> "EOF", states |-> <<>>]
    ELSE IF Head(toks).k = "["
    THEN DecodeItems(Tail(toks), <<>>, FALSE, [TaskHash |-> 0, Segments |-> <<>>])
    ELSE [err |-> "syntax", states |-> <<>>]

\* FileStateStore.Load: a file that cannot be opened and an empty file ("EOF")
\* both give the empty list and no error.
Load(d) ==
    IF ~d.exists THEN [err |-> FALSE, states |-> <<>>]
    ELSE LET r == Decode(d.data)
         IN IF r.err \in {"", "EOF"} THEN [err |-> FALSE, states |-> r.states]
            ELSE [err |-> TRUE, states |-> <<>>]

\* A removal that drops only the first entry with the hash.
RemoveFirstMatch(states, taskHash) ==
    LET hits == {i \in 1..Len(states) : states[i].TaskHash = taskHash}
    IN IF hits = {} THEN states
       ELSE LET f == CHOOSE i \in hits : \A j \in hits : i <= j
            IN SubSeq(states, 1, f - 1) \o SubSeq(states, f + 1, Len(states))

\* FileStateStore.RemoveTaskState
RemoveTaskState(states, taskHash) ==
    SelectSeq(states, LAMBDA st : st.TaskHash # taskHash)

\* FileStateStore.Save, first step: os.Create truncates the file, or fails and
\* leaves it as it is.
SaveBegin(states) ==
    /\ savePc = "idle"
    /\ saveArg' = states
    /\ \/ /\ disk' = [exists |-> TRUE, data |-> <<>>]
          /\ savePc' = "created"
          /\ saveOutcome' = "none"
       \/ /\ saveOutcome' = "error"
          /\ UNCHANGED <<disk, savePc>>
    /\ UNCHANGED <<lastSaved, loaded>>

\* Save is called with some list.
SaveCreate == \E l \in StoreLists : SaveBegin(l)

\* Save is called with the loaded list less one task's entry, as the driver
\* does when a task is completed.
SaveRemoved ==
    /\ loaded.states # <<>>
    /\ \E h \in 1..MaxTasks : SaveBegin(RemoveTaskState(loaded.states, h))

\* FileStateStore.Save, second step: Encode writes the text; a failing write
\* (disk full) leaves a proper prefix of it.
SaveEncode ==
    /\ savePc = "created"
    /\ savePc' = "idle"
    /\ \/ /\ disk' = [exists |-> TRUE, data |-> Encode(saveArg)]
          /\ lastSaved' = saveArg
          /\ saveOutcome' = "ok"
       \/ /\ \E k \in 0..(Len(Encode(saveArg)) - 1) :
                disk' = [exists |-> TRUE, data |-> SubSeq(Encode(saveArg), 1, k)]
          /\ saveOutcome' = "error"
          /\ UNCHANGED lastSaved
    /\ UNCHANGED <<saveArg, loaded>>

\* The process is killed between os.Create and the write.
SaveCrash ==
    /\ savePc = "created"
    /\ savePc' = "idle"
    /\ saveOutcome' = "crash"
    /\ UNCHANGED <<disk, saveArg, lastSaved, loaded>>

\* FileStateStore.Load
LoadStep ==
    /\ savePc = "idle"
    /\ loaded' = Load(disk)
    /\ UNCHANGED <<disk, savePc, saveArg, lastSaved, saveOutcome>>

NoLoad == [err |-> FALSE, states |-> <<>>]

InitStoreIdle ==
    /\ disk = [exists |-> FALSE, data |-> <<>>]
    /\ savePc = "idle"
    /\ saveArg = <<>>
    /\ lastSaved = <<>>
    /\ saveOutcome = "none"
    /\ loaded = NoLoad

\* --------------------------------------------------------- the line rewriter
\* The bytes of a document: "t" is the text of the target task's line, "o" any
\* other text; the rewritten task line is "x", its duration annotation "d",
\* the commits header "h" and a commit line "c".
NL == "\n"

CR == "\r"

DocBytes == {"t", "o", NL, CR}

Docs == UNION {[1..n -> DocBytes] : n \in 0..MaxDocLen}

TargetLine == <<"t">>

\* bufio's dropCR
DropCR(line) ==
    IF line # <<>> /\ line[Len(line)] = CR
    THEN SubSeq(line, 1, Len(line) - 1) ELSE line

\* bytes.Split(content, "\n"); cur is the piece being read
RECURSIVE SplitNL(_, _)
SplitNL(doc, cur) ==
    IF doc = <<>> THEN <<cur>>
    ELSE IF Head(doc) = NL THEN <<cur>> \o SplitNL(Tail(doc), <<>>)
    ELSE SplitNL(Tail(doc), Append(cur, Head(doc)))

\* The lines bufio.Scanner (ScanLines) yields: the line terminator and a
\* carriage return before it are dropped; an empty rest at EOF is no line.
ScanLines(doc) ==
    LET parts == SplitNL(doc, <<>>)
        n == Len(parts)
        kept == IF parts[n] = <<>> THEN SubSeq(parts, 1, n - 1) ELSE parts
    IN [i \in 1..Len(kept) |-> DropCR(kept[i])]

\* rewrite.BuildLineOffsets: the 0-based offsets at which lines begin
BuildLineOffsets(doc) ==
    <<0>> \o SelectSeq([i \in 1..Len(doc) |-> i],
                       LAMBDA i : doc[i] = NL /\ i < Len(doc))

\* A mutation of LineIndexOfByte: the index found by the search is returned
\* as it is.
LineIndexNoStepBack(offsets, off) ==
    Cardinality({j \in 1..Len(offsets) : offsets[j] <= off})

\* ScannerRewriter.LineIndexOfByte
LineIndexOfByte(offsets, off) ==
    LET i == Cardinality({j \in 1..Len(offsets) : offsets[j] <= off})
    IN IF i = 0 THEN 0 ELSE i - 1

\* rewrite.NewScannerRewriter: rest holds the lines not yet scanned
NewScannerRewriter(doc) ==
    [rest |-> ScanLines(doc), out |-> <<>>, lineNo |-> 0, finished |-> FALSE]

\* output.Write(line); output.WriteByte('\n') for each line
RECURSIVE WriteLines(_, _)
WriteLines(out, lines) ==
    IF lines = <<>> THEN out
    ELSE WriteLines(out \o Head(lines) \o <<NL>>, Tail(lines))

\* ScannerRewriter.CopyLinesUntil
RECURSIVE CopyLinesUntil(_, _)
CopyLinesUntil(rw, lineIndex) ==
    IF rw.finished \/ rw.lineNo >= lineIndex THEN rw
    ELSE IF rw.rest = <<>> THEN [rw EXCEPT !.finished = TRUE]
    ELSE CopyLinesUntil([rw EXCEPT !.out = @ \o Head(rw.rest) \o <<NL>>,
                                   !.rest = Tail(@),
                                   !.lineNo = @ + 1], lineIndex)

\* the skip loop of ReplaceLines: n lines are consumed without being written
RECURSIVE SkipLines(_, _)
SkipLines(rw, n) ==
    IF n <= 0 THEN rw
    ELSE IF rw.rest = <<>> THEN [rw EXCEPT !.finished = TRUE]
    ELSE SkipLines([rw EXCEPT !.rest = Tail(@), !.lineNo = @ + 1], n - 1)

\* ScannerRewriter.ReplaceLines: when the scanner runs out while skipping, it
\* returns before newLines are written.
ReplaceLines(rw, startLine, endLine, newLines) ==
    LET a == CopyLinesUntil(rw, startLine)
        n == endLine - startLine + 1
        b == SkipLines(a, n)
    IN IF n > 0 /\ b.lineNo # a.lineNo + n THEN b
       ELSE [b EXCEPT !.out = WriteLines(@, newLines)]

\* ScannerRewriter.CopyRemainingLines
CopyRemainingLines(rw) ==
    IF rw.finished THEN rw
    ELSE [rw EXCEPT !.out = WriteLines(@, rw.rest),
                    !.rest = <<>>,
                    !.lineNo = @ + Len(rw.rest),
                    !.finished = TRUE]

\* taskText of UpdateMarkdown: updatedTask.String(), then the annotation
TaskText(dur) ==
    IF dur > 0 THEN << <<"x">>, <<NL, "d">> >> ELSE << <<"x">> >>

\* The 0-based indices of the lines whose task has the target's hash, in the
\* order of the walk.
Matches(doc) ==
    LET lines == ScanLines(doc)
    IN SelectSeq([i \in 1..Len(lines) |-> i - 1],
                 LAMBDA i : lines[i + 1] = TargetLine)

\* the body of the walk of UpdateMarkdown, for each matching task: prev is
\* the first line of the item's text, from startByte to its end
RECURSIVE WalkMatches(_, _, _, _)
WalkMatches(rw, doc, ms, dur) ==
    IF ms = <<>> THEN rw
    ELSE LET offsets == BuildLineOffsets(doc)
             startByte == offsets[Head(ms) + 1]
             startIndex == LineIndexOfByte(offsets, startByte)
             endIndex == LineIndexOfByte(offsets, startByte + Len(TargetLine))
         IN WalkMatches(ReplaceLines(CopyLinesUntil(rw, startIndex),
                                     startIndex, endIndex, TaskText(dur)),
                        doc, Tail(ms), dur)

\* parser.UpdateMarkdown on a readable file: [err, wrote, content]
UpdateMarkdown(doc, dur) ==
    LET rw == CopyRemainingLines(
                 WalkMatches(NewScannerRewriter(doc), doc, Matches(doc), dur))
    IN [err |-> FALSE, wrote |-> TRUE, content |-> rw.out]

\* rewrite.isTaskLine
isTaskLine(line) == DropCR(line) = TargetLine

\* newLines of MarkTaskAsCompleted: the checked line with its annotation, then
\* the commits
NewLines(taskLine, dur, commits) ==
    << [j \in 1..Len(taskLine) |-> IF taskLine[j] = "t" THEN "x" ELSE taskLine[j]]
         \o (IF dur > 0 THEN <<NL, NL, "d">> ELSE <<>>) >>
      \o (IF commits > 0 THEN << <<"h">> >> \o [j \in 1..commits |-> <<"c">>]
          ELSE <<>>)

\* rewrite.MarkTaskAsCompleted on a readable file: [err, wrote, content]
MarkTaskAsCompleted(doc, dur, commits) ==
    LET lines == SplitNL(doc, <<>>)
        found == {i \in 1..Len(lines) : isTaskLine(lines[i])}
    IN IF found = {} THEN [err |-> TRUE, wrote |-> FALSE, content |-> doc]
       ELSE LET taskLineIndex == (CHOOSE i \in found : \A j \in found : i <= j) - 1
                rw == CopyRemainingLines(
                        ReplaceLines(
                          CopyLinesUntil(NewScannerRewriter(doc), taskLineIndex),
                          taskLineIndex, taskLineIndex,
                          NewLines(lines[taskLineIndex + 1], dur, commits)))
            IN [err |-> FALSE, wrote |-> TRUE, content |-> rw.out]

NoRewrite ==
    [op |-> "none", err |-> FALSE, wrote |-> FALSE, dur |-> 0, commits |-> 0]

\* the driver calls parser.UpdateMarkdown on the document
DoUpdateMarkdown ==
    /\ rwRes.op = "none"
    \* the commits argument is used nowhere in the body
    /\ \E dur \in {0, 1}, commits \in {0, 1} :
         LET r == UpdateMarkdown(file, dur)
         IN /\ rwRes' = [op |-> "UpdateMarkdown", err |-> r.err,
                         wrote |-> r.wrote, dur |-> dur, commits |-> commits]
            /\ file' = IF r.wrote THEN r.content ELSE file
    /\ UNCHANGED rwOrig

\* the driver calls rewrite.MarkTaskAsCompleted on the document
DoMarkTaskAsCompleted ==
    /\ rwRes.op = "none"
    /\ \E dur \in {0, 1}, commits \in {0, 1} :
         LET r == MarkTaskAsCompleted(file, dur, commits)
         IN /\ rwRes' = [op |-> "MarkTaskAsCompleted", err |-> r.err,
                         wrote |-> r.wrote, dur |-> dur, commits |-> commits]
            /\ file' = IF r.wrote THEN r.content ELSE file
    /\ UNCHANGED rwOrig

InitRwIdle ==
    /\ file = <<>>
    /\ rwOrig = <<>>
    /\ rwRes = NoRewrite

\* ------------------------------------------------------------------ the TUI
Tasks == 1..MaxTasks

\* parser.ParseTimeBox of the tasks' timeboxes: task 1 has a duration, the
\* others a time range; <<duration, endTime>>
TaskBox(h) == IF h = 1 THEN <<ShortBox, 0>> ELSE <<0, ShortBox>>

\* the index of the entry with the hash in the list, 0 if there is none
FindState(states, h) ==
    IF \E i \in 1..Len(states) : states[i].TaskHash = h
    THEN CHOOSE i \in 1..Len(states) :
            /\ states[i].TaskHash = h
            /\ \A j \in 1..(i - 1) : states[j].TaskHash # h
    ELSE 0

\* m.stateMgr.Save(m.States), complete
SaveTo(states) == [exists |-> TRUE, data |-> Encode(states)]

\* no runner: m.sessionRunner is nil, or its session is over and forgotten
NoRunner ==
    /\ srState' = 0
    /\ Duration' = 0
    /\ EndTime' = 0
    /\ Paused' = FALSE
    /\ Completed' = FALSE
    /\ Ticker' = 0
    /\ tickers' = [t \in Workers |-> [active |-> FALSE, C |-> 0]]
    /\ eventCh' = <<>>
    /\ stopCh' = "open"
    /\ mutex' = "free"
    /\ wpc' = [w \in Workers |-> "none"]
    /\ wsel' = [w \in Workers |-> 0]
    /\ nSpawned' = 0
    /\ reading' = FALSE
    /\ hist' = InitHist

\* "enter" on task h in the task list: the ledger entry is found or made, a
\* runner is made over it and started, and sessionTickCmd is issued.
KeyEnterList(h) ==
    /\ proc = "up"
    /\ ActiveView = "ViewTaskList"
    /\ h \notin checked
    /\ LET found == FindState(States, h)
           tuiStates ==
             IF found = 0
             THEN Append(RemoveTaskState(States, h),
                         [TaskHash |-> h, Segments |-> <<OpenSeg(now)>>])
             ELSE [States EXCEPT ![found].Segments = Append(@, OpenSeg(now))]
           idx == IF found = 0 THEN Len(tuiStates) ELSE found
       IN /\ disk' = IF found = 0 THEN SaveTo(tuiStates) ELSE disk
          /\ SessionState' = idx
          \* session.NewSessionRunner(item.Task, m.SessionState, duration, endTime)
          /\ srState' = idx
          /\ Duration' = TaskBox(h)[1]
          /\ EndTime' = TaskBox(h)[2]
          /\ Paused' = FALSE
          /\ Completed' = FALSE
          /\ eventCh' = <<>>
          /\ stopCh' = "open"
          /\ mutex' = "free"
          \* runner.Start()
          /\ States' = [tuiStates EXCEPT ![idx].Segments = StartSegs(@, now)]
          /\ Ticker' = 1
          /\ tickers' = [t \in Workers |-> [active |-> t = 1, C |-> 0]]
          /\ wpc' = [w \in Workers |-> IF w = 1 THEN "select" ELSE "none"]
          /\ wsel' = [w \in Workers |-> IF w = 1 THEN 1 ELSE 0]
          /\ nSpawned' = 1
          /\ hist' = [InitHist EXCEPT !.started = TRUE]
    /\ ActiveView' = "ViewTimerActive"
    \* sessionTickCmd(runner)
    /\ reading' = TRUE
    /\ UNCHANGED <<now, savePc, saveArg, lastSaved, saveOutcome, loaded, rwVars,
                   proc, msgs, teaTick, restarts, checked>>

\* "q" or ctrl+c in the timer view: runner.Stop(), Save, tea.Quit
KeyQuitActive ==
    /\ proc = "up"
    /\ ActiveView = "ViewTimerActive"
    /\ IF Completed THEN UNCHANGED engineVars ELSE Stop
    /\ disk' = SaveTo(States)
    /\ ActiveView' = "ViewQuitting"
    /\ proc' = "down"
    /\ UNCHANGED <<savePc, saveArg, lastSaved, saveOutcome, loaded, rwVars,
                   SessionState, msgs, teaTick, restarts, checked>>

\* "enter" in the timer view: runner.Complete()
KeyEnterActive ==
    /\ proc = "up"
    /\ ActiveView = "ViewTimerActive"
    /\ IF Completed THEN UNCHANGED engineVars ELSE Complete
    /\ ActiveView' = "ViewTimerDone"
    /\ UNCHANGED <<storeVars, rwVars, SessionState, proc, msgs, teaTick,
                   restarts, checked>>

\* "enter" or space in the done view: the document is rewritten; when that
\* fails the program quits, else the entry is removed and the list saved.
KeyEnterDone ==
    /\ proc = "up"
    /\ ActiveView = "ViewTimerDone"
    /\ IF SessionState # 0
       THEN \/ /\ proc' = "down"
               /\ UNCHANGED <<engineVars, disk, ActiveView, SessionState, checked>>
            \/ /\ States' = RemoveTaskState(States, States[SessionState].TaskHash)
               /\ disk' = SaveTo(States')
               /\ checked' = checked \cup {States[SessionState].TaskHash}
               /\ SessionState' = 0
               /\ ActiveView' = "ViewTaskList"
               /\ NoRunner
               /\ UNCHANGED <<now, proc>>
       ELSE /\ ActiveView' = "ViewTaskList"
            /\ UNCHANGED <<engineVars, disk, SessionState, checked, proc>>
    /\ UNCHANGED <<savePc, saveArg, lastSaved, saveOutcome, loaded, rwVars,
                   msgs, teaTick, restarts>>

\* "q" or ctrl+c in the task list: the open segment of the session state is
\* closed, the list saved, tea.Quit
KeyQuitList ==
    /\ proc = "up"
    /\ ActiveView = "ViewTaskList"
    /\ States' = IF SessionState # 0
                 THEN [States EXCEPT ![SessionState].Segments = CloseLast(@, now)]
                 ELSE States
    /\ disk' = SaveTo(States')
    /\ ActiveView' = "ViewQuitting"
    /\ proc' = "down"
    /\ UNCHANGED <<now, srState, Duration, EndTime, Paused, Completed, Ticker,
                   tickers, eventCh, stopCh, mutex, wpc, wsel, nSpawned, reading,
                   hist, savePc, saveArg, lastSaved, saveOutcome, loaded, rwVars,
                   SessionState, msgs, teaTick, restarts, checked>>

\* sessionTickCmd: events are received until a Tick or a Completed, which is
\* returned as a message; the command is then over.
SessionTickCmd ==
    /\ proc = "up"
    /\ reading
    /\ eventCh # <<>>
    /\ eventCh' = Tail(eventCh)
    /\ IF Head(eventCh) = "Tick"
       THEN msgs' = msgs \cup {"tickMsg"} /\ reading' = FALSE
       ELSE IF Head(eventCh) = "Completed"
       THEN msgs' = msgs \cup {"sessionCompletedMsg"} /\ reading' = FALSE
       ELSE UNCHANGED <<msgs, reading>>
    /\ UNCHANGED <<now, States, srState, Duration, EndTime, Paused, Completed,
                   Ticker, tickers, stopCh, mutex, wpc, wsel, nSpawned, hist,
                   storeVars, rwVars, ActiveView, SessionState, proc, teaTick,
                   restarts, checked>>

\* handleTickMsg: the display is refreshed and tea.Tick(time.Second) armed
HandleTickMsg ==
    /\ proc = "up"
    /\ "tickMsg" \in msgs
    /\ msgs' = msgs \ {"tickMsg"}
    /\ teaTick' = TRUE
    /\ UNCHANGED <<engineVars, storeVars, rwVars, ActiveView, SessionState, proc,
                   restarts, checked>>

\* the tea.Tick timer fires: a tickMsg
TeaTickFires ==
    /\ proc = "up"
    /\ teaTick
    /\ teaTick' = FALSE
    /\ msgs' = msgs \cup {"tickMsg"}
    /\ UNCHANGED <<engineVars, storeVars, rwVars, ActiveView, SessionState, proc,
                   restarts, checked>>

\* handleSessionCompletedMsg
HandleSessionCompletedMsg ==
    /\ proc = "up"
    /\ "sessionCompletedMsg" \in msgs
    /\ msgs' = msgs \ {"sessionCompletedMsg"}
    /\ ActiveView' = "ViewTimerDone"
    /\ IF SessionState # 0
       THEN /\ States' = [States EXCEPT ![SessionState].Segments = CloseLast(@, now)]
            /\ disk' = SaveTo(States')
       ELSE UNCHANGED <<States, disk>>
    /\ UNCHANGED <<now, srState, Duration, EndTime, Paused, Completed, Ticker,
                   tickers, eventCh, stopCh, mutex, wpc, wsel, nSpawned, reading,
                   hist, savePc, saveArg, lastSaved, saveOutcome, loaded, rwVars,
                   SessionState, proc, teaTick, restarts, checked>>

\* The program is started again: the ledger is loaded (a Load error is
\* ignored), the view is the task list.
Restart ==
    /\ proc = "down"
    /\ restarts < MaxRestarts
    /\ restarts' = restarts + 1
    /\ proc' = "up"
    /\ States' = Load(disk).states
    /\ ActiveView' = "ViewTaskList"
    /\ SessionState' = 0
    /\ msgs' = {}
    /\ teaTick' = FALSE
    /\ NoRunner
    /\ UNCHANGED <<now, storeVars, rwVars, checked>>

InitTuiIdle ==
    /\ ActiveView = "ViewTaskList"
    /\ SessionState = 0
    /\ proc = "up"
    /\ msgs = {}
    /\ teaTick = FALSE
    /\ restarts = 0
    /\ checked = {}

\* ---------------------------------------------------------------------------
\* The line rewriter called directly, as rewriter_test.go does.
\* the newLines a caller passes to ReplaceLines
NewLineLists == {<<>>, << <<"x">> >>, << <<"x">>, <<"d">> >>}

\* rw := NewScannerRewriter(doc, BuildLineOffsets(doc)); rw.CopyLinesUntil(s);
\* rw.ReplaceLines(s, e, new); rw.CopyRemainingLines(); the document becomes
\* rw.Bytes()
DoReplaceLines ==
    /\ probe.op = "none"
    /\ \E startLine \in 0..MaxDocLen, endLine \in 0..MaxDocLen,
          newLines \in NewLineLists :
         /\ startLine <= endLine
         /\ file' = CopyRemainingLines(
                       ReplaceLines(
                         CopyLinesUntil(NewScannerRewriter(file), startLine),
                         startLine, endLine, newLines)).out
         /\ probe' = [op |-> "ReplaceLines", arg |-> newLines, h |-> startLine,
                      val |-> <<endLine>>]
    /\ UNCHANGED <<rwOrig, rwRes>>

\* rw.LineIndexOfByte(offset) over BuildLineOffsets(doc), for a byte of doc
DoLineIndexOfByte ==
    /\ probe.op = "none"
    /\ \E offset \in 0..(Len(file) - 1) :
         probe' = [op |-> "LineIndexOfByte", arg |-> <<>>, h |-> offset,
                   val |-> <<LineIndexOfByte(BuildLineOffsets(file), offset)>>]
    /\ UNCHANGED rwVars

\* ---------------------------------------------------------------------------
\* parser.ParseTimeBox. A timebox string is a sequence of tokens: the bytes
\* "@", "[", "]", "-", "h", "m", the digits "0" and "1", and "T", which
\* stands for a clock text time.Parse("15:04", .) accepts (no other text over
\* these tokens is accepted). Durations are in minutes. An end time is 0 for
\* the zero time.Time, Today or Tomorrow for the clock time on that day.
BoxTokens == {"@", "[", "]", "-", "T", "0", "1", "h", "m"}

BoxStrings == UNION {[1..n -> BoxTokens] : n \in 0..MaxBoxLen}

Hour == 60

Today == 1

Tomorrow == 2

TimeErr == [dur |-> 0, end |-> 0, err |-> TRUE]

\* strings.Trim(s, cutset)
RECURSIVE TrimLeft(_, _)
TrimLeft(s, cutset) ==
    IF s # <<>> /\ Head(s) \in cutset THEN TrimLeft(Tail(s), cutset) ELSE s

RECURSIVE TrimRight(_, _)
TrimRight(s, cutset) ==
    IF s # <<>> /\ s[Len(s)] \in cutset
    THEN TrimRight(SubSeq(s, 1, Len(s) - 1), cutset)
    ELSE s

Trim(s, cutset) == TrimRight(TrimLeft(s, cutset), cutset)

\* strings.Split(s, sep) for a one-byte sep; cur is the part being read
RECURSIVE SplitOn(_, _, _)
SplitOn(s, sep, cur) ==
    IF s = <<>> THEN <<cur>>
    ELSE IF Head(s) = sep THEN <<cur>> \o SplitOn(Tail(s), sep, <<>>)
    ELSE SplitOn(Tail(s), sep, Append(cur, Head(s)))

\* the length of the longest prefix of s made of digits (\d+ is greedy)
RECURSIVE DigitRun(_)
DigitRun(s) ==
    IF s # <<>> /\ Head(s) \in {"0", "1"} THEN 1 + DigitRun(Tail(s)) ELSE 0

\* strconv.Atoi of a run of digits
RECURSIVE Atoi(_)
Atoi(s) ==
    IF s = <<>> THEN 0
    ELSE 10 * Atoi(SubSeq(s, 1, Len(s) - 1)) + (IF s[Len(s)] = "1" THEN 1 ELSE 0)

\* reDuration.FindStringSubmatch(s) for ^(\d+h)?(\d+m)?$: the whole match and
\* the two groups, or the empty sequence when s does not match
reDuration(s) ==
    LET n1 == DigitRun(s)
        g1 == IF n1 >= 1 /\ Len(s) > n1 /\ s[n1 + 1] = "h"
              THEN SubSeq(s, 1, n1 + 1) ELSE <<>>
        rest == SubSeq(s, Len(g1) + 1, Len(s))
        n2 == DigitRun(rest)
        g2 == IF n2 >= 1 /\ Len(rest) = n2 + 1 /\ rest[n2 + 1] = "m"
              THEN rest ELSE <<>>
    IN IF rest = g2 THEN <<s, g1, g2>> ELSE <<>>

\* strings.TrimSuffix(g, unit) of a group that ends with its unit
TrimSuffix(g) == SubSeq(g, 1, Len(g) - 1)

\* a mutation of DurationResult: the duration is returned whatever it is
DurationResultAny(totalDuration) ==
    [dur |-> totalDuration, end |-> 0, err |-> FALSE]

\* the end of the duration branch: a duration is returned only when positive
DurationResult(totalDuration) ==
    IF totalDuration > 0
    THEN [dur |-> totalDuration, end |-> 0, err |-> FALSE]
    ELSE TimeErr

\* ParseTimeBox(timeBox); past tells whether the clock time of the range's
\* end is before time.Now() today
ParseTimeBox(timeBox, past) ==
    IF timeBox = <<>> THEN TimeErr
    ELSE LET tb == IF Head(timeBox) = "@" THEN Tail(timeBox) ELSE timeBox
         IN IF tb # <<>> /\ Head(tb) = "[" /\ tb[Len(tb)] = "]"
            THEN LET parts == SplitOn(Trim(tb, {"[", "]"}), "-", <<>>)
                 IN IF Len(parts) # 2 THEN TimeErr
                    ELSE IF parts[2] # <<"T">> THEN TimeErr
                    ELSE [dur |-> 0, end |-> IF past THEN Tomorrow ELSE Today,
                          err |-> FALSE]
            ELSE LET matches == reDuration(tb)
                 IN IF Len(matches) = 3
                    THEN DurationResult(
                           (IF matches[2] # <<>>
                            THEN Atoi(TrimSuffix(matches[2])) * Hour ELSE 0)
                           + (IF matches[3] # <<>>
                              THEN Atoi(TrimSuffix(matches[3])) ELSE 0))
                    ELSE TimeErr

\* A caller parses a timebox string: [dur, end, err (1 for an error)]
ParseStep ==
    /\ probe.op = "none"
    /\ \E s \in BoxStrings, past \in BOOLEAN :
         LET r == ParseTimeBox(s, past)
         IN probe' = [op |-> "ParseTimeBox", arg |-> s,
                      h |-> IF past THEN 1 ELSE 0,
                      val |-> <<r.dur, r.end, IF r.err THEN 1 ELSE 0>>]
    /\ UNCHANGED <<engineVars, storeVars, rwVars, tuiVars, newVars>>

\* ---------------------------------------------------------------------------
\* gitwatcher.GitWatcher. A commit line is a sequence of bytes; the lines a
\* poll can return are drawn from CommitLines, where three lines begin with
\* the same HashLen bytes (one of them is exactly that long) and one does
\* not. errorCh is modelled by the number of errors it holds.
LineA == [i \in 1..HashLen |-> "a"]

LineB == [i \in 1..HashLen |-> "b"]

CommitLines == {LineA, LineA \o <<"x">>, LineA \o <<"y">>, LineB \o <<"x">>}

\* what gitutil.GetCommitsSince can return when it succeeds
PollResults == UNION {[1..n -> CommitLines] : n \in 0..MaxPollLen}

\* the first HashLen bytes of a line, the whole line if it is not longer
Prefix(commit) ==
    IF Len(commit) > HashLen THEN SubSeq(commit, 1, HashLen) ELSE commit

\* a mutation of hash: the whole line is the key
hashWholeLine(commit) == commit

\* hash := commit[:8], or commit when it has at most 8 bytes
hash(commit) ==
    IF Len(commit) > HashLen THEN SubSeq(commit, 1, HashLen) ELSE commit

\* NewGitWatcher: nothing polled, the channels open and empty. pc is the
\* worker's position ("new" before Start), sent the values ever sent on
\* commitsCh, firsts the first line met in the loop for each prefix, polls
\* and stops count the polls and the Stop calls, panicked tells whether a
\* goroutine has panicked.
NewGitWatcher ==
    [pc |-> "new", stopCh |-> "open", lastHashes |-> {}, commitsCh |-> <<>>,
     errorCh |-> 0, todo |-> <<>>, sent |-> <<>>, firsts |-> <<>>,
     errs |-> 0, polls |-> 0, stops |-> 0, panicked |-> FALSE]

\* Start(): the worker goroutine is spawned
GwStart ==
    /\ ~gw.panicked
    /\ gw.pc = "new"
    /\ gw' = [gw EXCEPT !.pc = "select"]

\* Stop(): close(gw.stopCh); closing a closed channel panics
GwStop ==
    /\ ~gw.panicked
    /\ gw.stops < MaxStops
    /\ gw' = IF gw.stopCh = "closed"
             THEN [gw EXCEPT !.panicked = TRUE, !.stops = @ + 1]
             ELSE [gw EXCEPT !.stopCh = "closed", !.stops = @ + 1]

\* case <-gw.stopCh: return
GwStopped ==
    /\ ~gw.panicked
    /\ gw.pc = "select"
    /\ gw.stopCh = "closed"
    /\ gw' = [gw EXCEPT !.pc = "done"]

\* case <-ticker.C: the repository is queried; the query fails or returns
\* lines. (When stopCh is closed too, select takes either case.)
GwPoll ==
    /\ ~gw.panicked
    /\ gw.pc = "select"
    /\ gw.polls < MaxPolls
    /\ \/ gw' = [gw EXCEPT !.pc = "sendErr", !.polls = @ + 1]
       \/ \E commits \in PollResults :
            gw' = [gw EXCEPT !.pc = "loop", !.todo = commits, !.polls = @ + 1]

\* gw.errorCh <- err; continue. The send waits for room in the channel.
GwSendErr ==
    /\ ~gw.panicked
    /\ gw.pc = "sendErr"
    /\ gw.errorCh < ErrorChCap
    /\ gw' = [gw EXCEPT !.errorCh = @ + 1, !.errs = @ + 1, !.pc = "select"]

\* one pass of the loop over commits, under gw.mu: a line whose hash was not
\* seen is sent (the send waits for room) and its hash recorded; after the
\* last line the mutex is released and the worker selects again
GwLoop ==
    /\ ~gw.panicked
    /\ gw.pc = "loop"
    /\ IF gw.todo = <<>>
       THEN gw' = [gw EXCEPT !.pc = "select"]
       ELSE LET commit == Head(gw.todo)
                met == [gw EXCEPT
                          !.todo = Tail(@),
                          !.firsts =
                             IF \E i \in 1..Len(@) : Prefix(@[i]) = Prefix(commit)
                             THEN @ ELSE Append(@, commit)]
            IN IF hash(commit) \notin gw.lastHashes
               THEN /\ Len(gw.commitsCh) < CommitsChCap
                    /\ gw' = [met EXCEPT !.commitsCh = Append(@, commit),
                                         !.sent = Append(@, commit),
                                         !.lastHashes = @ \cup {hash(commit)}]
               ELSE gw' = met

\* a receiver takes a value from Commits()
GwRecvCommit ==
    /\ ~gw.panicked
    /\ gw.commitsCh # <<>>
    /\ gw' = [gw EXCEPT !.commitsCh = Tail(@)]

\* a receiver takes an error from Errors()
GwRecvError ==
    /\ ~gw.panicked
    /\ gw.errorCh > 0
    /\ gw' = [gw EXCEPT !.errorCh = @ - 1]

\* ---------------------------------------------------------------------------
\* core.InMemoryStateStore. A []TimeBoxState holds, for each entry, the header
\* of its Segments slice, which refers to a backing array: heap maps each
\* array's reference to its segments, and an entry here is [TaskHash,
\* Segments: a reference]. caller is the list the calling code holds, store
\* is ms.states. The same calls are made on a FileStateStore, whose caller
\* holds States and whose file is disk.
NewInMemoryStateStore == [heap |-> <<>>, caller |-> <<>>, store |-> <<>>]

\* the values a list of entries with references stands for
Deref(list) ==
    [i \in 1..Len(list) |->
        [TaskHash |-> list[i].TaskHash, Segments |-> mem.heap[list[i].Segments]]]

\* what the memory store's calls leave alone in the file store's world
MemRest ==
    UNCHANGED <<now, srState, Duration, EndTime, Paused, Completed, Ticker,
                tickers, eventCh, stopCh, mutex, wpc, wsel, nSpawned, reading,
                hist, savePc, saveArg, lastSaved, saveOutcome, loaded, rwVars,
                tuiVars, probe, gw, cli, tw, taskString>>

\* the caller appends an entry for a task with one open segment
\* (findOrCreateState); the segment's array is new
CallerAppend(h) ==
    /\ Len(mem.heap) < MaxTasks
    /\ Len(States) < MaxTasks
    /\ mem' = [mem EXCEPT
                 !.heap = Append(@, <<OpenSeg(now)>>),
                 !.caller = Append(@, [TaskHash |-> h,
                                       Segments |-> Len(mem.heap) + 1])]
    /\ States' = Append(States, [TaskHash |-> h, Segments |-> <<OpenSeg(now)>>])
    /\ UNCHANGED disk
    /\ MemRest

\* the caller closes the last segment of an entry of its list in place:
\* lastSeg := &state.Segments[len-1]; lastSeg.End = &now
CallerClose(i) ==
    /\ i <= Len(mem.caller)
    /\ i <= Len(States)
    /\ mem' = [mem EXCEPT !.heap[mem.caller[i].Segments] = CloseLast(@, now)]
    /\ States' = [States EXCEPT ![i].Segments = CloseLast(@, now)]
    /\ UNCHANGED disk
    /\ MemRest

\* store.Save(list): the memory store keeps a copy of the list, made with
\* copy(cpy, states): the entries are copied, their arrays are not
BothSave ==
    /\ mem' = [mem EXCEPT !.store = mem.caller]
    /\ disk' = SaveTo(States)
    /\ UNCHANGED States
    /\ MemRest

\* list, _ = store.Load(): the memory store returns a copy of ms.states made
\* with copy(cpy, ms.states)
BothLoad ==
    /\ mem' = [mem EXCEPT !.caller = mem.store]
    /\ States' = Load(disk).states
    /\ UNCHANGED disk
    /\ MemRest

\* list = store.RemoveTaskState(list, taskHash)
BothRemove(h) ==
    /\ mem' = [mem EXCEPT !.caller = RemoveTaskState(@, h)]
    /\ States' = RemoveTaskState(States, h)
    /\ UNCHANGED disk
    /\ MemRest

\* ---------------------------------------------------------------------------
\* The command-line driver, core.StartGoBoxWithClockAndStore, with a
\* FileStateStore. cli is [pc, hash, err, saveErr, runs]: pc is "init" before
\* the call, "running" while the timer runs and the driver waits for Enter,
\* "closed" after closeCurrentSegmentIfOpen, "done" after the return and
\* "exited" after os.Exit(130); hash is the task's hash, err whether the
\* call returned an error, saveErr whether the signal handler's Save did,
\* runs the number of runs so far. States is the driver's list, checked the
\* tasks checked in the document.
NoCli == [pc |-> "init", hash |-> 0, err |-> FALSE, saveErr |-> FALSE, runs |-> 0]

\* what FileStateStore.Save(states) can leave in the file d, and whether it
\* returns an error: the list is written; os.Create fails; os.Create has
\* truncated the file and Encode fails
SaveResults(d, states) ==
    {[disk |-> SaveTo(states), err |-> FALSE],
     [disk |-> d, err |-> TRUE],
     [disk |-> [exists |-> TRUE, data |-> <<>>], err |-> TRUE]}

\* A mutation of findOrCreateState: the list is not searched, an entry is
\* always appended.
findOrCreateStateAppend(states, taskHash, t) ==
    Append(states, [TaskHash |-> taskHash, Segments |-> <<OpenSeg(t)>>])

\* findOrCreateState
findOrCreateState(states, taskHash, t) ==
    LET i == FindState(states, taskHash)
    IN IF i # 0
       THEN [states EXCEPT ![i].Segments = IF IsActive(@) THEN @
                                           ELSE Append(@, OpenSeg(t))]
       ELSE Append(states, [TaskHash |-> taskHash, Segments |-> <<OpenSeg(t)>>])

\* the segments of every entry with the hash are closed, if open
CloseTask(states, taskHash, t) ==
    [i \in 1..Len(states) |->
        IF states[i].TaskHash = taskHash
        THEN [states[i] EXCEPT !.Segments = CloseLast(@, t)]
        ELSE states[i]]

CliRest ==
    UNCHANGED <<srState, Duration, EndTime, Paused, Completed, Ticker, tickers,
                eventCh, stopCh, mutex, wpc, wsel, nSpawned, reading, hist,
                savePc, saveArg, lastSaved, saveOutcome, loaded, rwVars,
                ActiveView, SessionState, proc, msgs, teaTick, restarts,
                probe, mem, gw, tw, taskString>>

\* the clock goes on
CliClock ==
    /\ now < MaxTime
    /\ now' = now + 1
    /\ UNCHANGED <<States, disk, checked, cli>>
    /\ CliRest

\* The driver is called: the first unchecked task is taken, the ledger
\* loaded (an error is ignored), the entry found or created with an open
\* segment, the ledger saved (the result is ignored; getTimerDuration may
\* save the same list once more) and the signal handler installed.
CliStart ==
    /\ cli.pc = "init"
    /\ Tasks \ checked # {}
    /\ LET taskHash == CHOOSE h \in Tasks \ checked :
                           \A g \in Tasks \ checked : h <= g
           states == findOrCreateState(Load(disk).states, taskHash, now)
       IN /\ States' = states
          /\ \E r \in SaveResults(disk, states) : disk' = r.disk
          /\ cli' = [cli EXCEPT !.pc = "running", !.hash = taskHash]
    /\ UNCHANGED <<now, checked>>
    /\ CliRest

\* SIGINT or SIGTERM: the handler closes the task's open segment, calls Save
\* and then os.Exit(130)
CliSignal ==
    /\ cli.pc \in {"running", "closed"}
    /\ States' = CloseTask(States, cli.hash, now)
    /\ \E r \in SaveResults(disk, States') :
         /\ disk' = r.disk
         /\ cli' = [cli EXCEPT !.pc = "exited", !.saveErr = r.err]
    /\ UNCHANGED <<now, checked>>
    /\ CliRest

\* Enter is read: closeCurrentSegmentIfOpen closes the open segment and
\* saves (the result is ignored)
CliEnter ==
    /\ cli.pc = "running"
    /\ LET i == FindState(States, cli.hash)
       IN IF IsActive(States[i].Segments)
          THEN /\ States' = [States EXCEPT ![i].Segments = CloseLast(@, now)]
               /\ \E r \in SaveResults(disk, States') : disk' = r.disk
          ELSE UNCHANGED <<States, disk>>
    /\ cli' = [cli EXCEPT !.pc = "closed"]
    /\ UNCHANGED <<now, checked>>
    /\ CliRest

\* err = parser.UpdateMarkdown(...) (the document is rewritten, or cannot be
\* read or written); newStates := RemoveTaskState(states, taskHash);
\* Save(newStates); the error of the rewrite is returned
CliFinish ==
    /\ cli.pc = "closed"
    /\ \E ok \in BOOLEAN :
         /\ checked' = IF ok THEN checked \cup {cli.hash} ELSE checked
         /\ cli' = [cli EXCEPT !.pc = "done", !.err = ~ok]
    /\ LET newStates == RemoveTaskState(States, cli.hash)
       IN \E r \in SaveResults(disk, newStates) : disk' = r.disk
    /\ UNCHANGED <<now, States>>
    /\ CliRest

\* the program is run again
CliRestart ==
    /\ cli.pc \in {"done", "exited"}
    /\ cli.runs < MaxRestarts
    /\ cli' = [NoCli EXCEPT !.runs = cli.runs + 1]
    /\ States' = <<>>
    /\ UNCHANGED <<now, disk, checked>>
    /\ CliRest

\* ---------------------------------------------------------------------------
\* The driver's main thread and its timer worker (timerAndGitWatcher), from
\* the start of the worker to the return of wg.Wait(). stopChan is unbuffered:
\* a non-blocking send on it goes through only when the other side is waiting
\* in a receive at that moment. left is the time the timebox has left, in
\* ticks of the worker's ticker; enterLeft is what was left when Enter was
\* pressed (-1 before).
MaxTicks == 3

NoTw == [main |-> "idle", worker |-> "none", left |-> 0, polls |-> 0,
         stopped |-> FALSE, enterLeft |-> -1]

TwRest ==
    UNCHANGED <<engineVars, storeVars, rwVars, tuiVars, probe, mem, gw, cli,
                taskString>>

\* go timerAndGitWatcher(...); the main thread reads a line from stdin
TwStart ==
    /\ tw.main = "idle"
    /\ \E timerDuration \in 0..MaxTicks :
         tw' = [tw EXCEPT !.main = "reading", !.worker = "select",
                          !.left = timerDuration]
    /\ TwRest

\* case <-ticker.C(): the worker leaves its select
TwTick ==
    /\ tw.worker = "select"
    /\ tw' = [tw EXCEPT !.worker = "tick"]
    /\ TwRest

\* the tick is handled: when nothing remains the worker tries to send on
\* stopChan (the main thread never receives from it) and returns; otherwise
\* it prints the status and selects again
TwTickDone ==
    /\ tw.worker = "tick"
    /\ LET remaining == IF tw.left > 0 THEN tw.left - 1 ELSE 0
       IN tw' = [tw EXCEPT !.left = remaining,
                           !.worker = IF remaining <= 0 THEN "exited"
                                      ELSE "select"]
    /\ TwRest

\* case <-gitPollTicker.C(): the worker leaves its select and runs git
TwPoll ==
    /\ tw.worker = "select"
    /\ tw.polls < MaxPolls
    /\ tw' = [tw EXCEPT !.worker = "poll", !.polls = @ + 1]
    /\ TwRest

\* the commits are printed and the worker selects again
TwPollDone ==
    /\ tw.worker = "poll"
    /\ tw' = [tw EXCEPT !.worker = "select"]
    /\ TwRest

\* Enter: select { case stopChan <- struct{}{}: default: }. The worker gets
\* the value only if it is waiting in its select; it then returns.
TwEnter ==
    /\ tw.main = "reading"
    /\ tw' = [tw EXCEPT !.main = "waiting",
                        !.enterLeft = tw.left,
                        !.stopped = (tw.worker = "select"),
                        !.worker = IF tw.worker = "select" THEN "exited" ELSE @]
    /\ TwRest

\* wg.Wait() returns once the worker has returned
TwWait ==
    /\ tw.main = "waiting"
    /\ tw.worker = "exited"
    /\ tw' = [tw EXCEPT !.main = "done"]
    /\ TwRest

NoProbe == [op |-> "none", arg |-> <<>>, h |-> 0, val |-> <<>>]

\* A caller on another goroutine calls runner.Remaining(): it waits for the
\* mutex, computes and returns; nothing is assigned.
QueryRemaining ==
    /\ mutex = "free"
    /\ probe' = [op |-> "Remaining", arg |-> <<>>, h |-> 0, val |-> <<Remaining>>]
    /\ UNCHANGED <<engineVars, storeVars, rwVars, tuiVars, newVars>>

\* A caller calls runner.TotalElapsed(): no lock is taken, nothing is
\* assigned.
QueryTotalElapsed ==
    /\ probe' = [op |-> "TotalElapsed", arg |-> <<>>, h |-> 0,
                 val |-> <<TotalElapsed>>]
    /\ UNCHANGED <<engineVars, storeVars, rwVars, tuiVars, newVars>>

InitNewIdle ==
    /\ mem = NewInMemoryStateStore /\ gw = NewGitWatcher /\ cli = NoCli
    /\ tw = NoTw /\ taskString = <<>>

InitRest ==
    InitStoreIdle /\ InitRwIdle /\ InitTuiIdle /\ probe = NoProbe /\ InitNewIdle

\* ------------------------------------------------------------ specification
\* A reader that is receiving takes each event before anything else happens.
Quiet == ~(reading /\ eventCh # <<>>)

Idle == UNCHANGED restVars

Init ==
    /\ InitEngine({<<ShortBox, 0>>, <<0, ShortBox>>}, BOOLEAN)
    /\ InitRest

\* Within MaxTime fewer than EventChCap events are produced, so no send
\* blocks here; UnreadSpec below lets the channel fill.
Next ==
    \/ Consume /\ Idle
    \/ Quiet /\ Start /\ Idle
    \/ Quiet /\ Pause /\ Idle
    \/ Quiet /\ Resume /\ Idle
    \/ Quiet /\ Complete /\ Idle
    \/ Quiet /\ Stop /\ Idle
    \/ \E w \in Workers : Quiet /\ WorkerStep(w) /\ Idle
    \/ Quiet /\ Advance(MaxTime) /\ Idle

Spec == Init /\ [][Next]_vars

\* ---------------------------------------------------------------------------
\* The session engine with a caller that receives the events and queries the
\* runner at any time, as the TUI's handleTickMsg does.
QueryInit ==
    /\ InitEngine({<<ShortBox, 0>>, <<0, ShortBox>>}, {TRUE})
    /\ InitRest

QueryNext ==
    \/ Consume /\ Idle
    \/ Quiet /\ Start /\ Idle
    \/ Quiet /\ Pause /\ Idle
    \/ Quiet /\ Resume /\ Idle
    \/ Quiet /\ Complete /\ Idle
    \/ Quiet /\ Stop /\ Idle
    \/ \E w \in Workers : Quiet /\ WorkerStep(w) /\ Idle
    \/ Quiet /\ Advance(MaxTime) /\ Idle
    \/ Quiet /\ QueryRemaining
    \/ Quiet /\ QueryTotalElapsed

QuerySpec == QueryInit /\ [][QueryNext]_vars

\* ---------------------------------------------------------------------------
\* A long session whose events may have no receiver (the TUI stops receiving
\* after the first Tick): the session is started and left alone until the
\* event channel is full; then calls arrive, and a reader may come.
LongTime == EventChCap + 1

UnreadInit ==
    /\ InitEngine({<<LongTime, 0>>, <<0, LongTime - 1>>}, BOOLEAN)
    /\ InitRest

UnreadNext ==
    \/ Consume /\ Idle
    \/ Quiet /\ nSpawned = 0 /\ Start /\ Idle
    \/ Quiet /\ ~HasRoom(eventCh) /\ Pause /\ Idle
    \/ Quiet /\ ~HasRoom(eventCh) /\ Complete /\ Idle
    \/ Quiet /\ ~HasRoom(eventCh) /\ Stop /\ Idle
    \/ Quiet /\ BlockedSend /\ Idle
    \/ \E w \in Workers : Quiet /\ WorkerStep(w) /\ Idle
    \/ Quiet /\ Advance(LongTime) /\ Idle
    \/ ReaderReturns /\ Idle

UnreadSpec == UnreadInit /\ [][UnreadNext]_vars

\* The workers run, the clock ticks, a reader that is receiving receives and
\* a blocked send goes through when it can; nothing obliges a reader to come.
FairUnreadSpec ==
    /\ UnreadSpec
    /\ \A w \in Workers : WF_vars(Quiet /\ WorkerStep(w) /\ Idle)
    /\ WF_vars(Quiet /\ Advance(LongTime) /\ Idle)
    /\ WF_vars(Quiet /\ BlockedSend /\ Idle)
    /\ WF_vars(Consume /\ Idle)

\* ---------------------------------------------------------------------------
\* The state store alone: a Save of any list, with failures and crashes, and
\* Loads before and after it, over a file that is absent or holds the list
\* of an earlier Save (os.Create truncates, so what Save leaves does not
\* depend on what the file held).
StoreInit ==
    /\ InitEngine({<<ShortBox, 0>>}, {TRUE})
    /\ InitRwIdle
    /\ InitTuiIdle
    /\ probe = NoProbe
    /\ InitNewIdle
    /\ savePc = "idle"
    /\ saveArg = <<>>
    /\ saveOutcome = "none"
    /\ loaded = NoLoad
    /\ \/ disk = [exists |-> FALSE, data |-> <<>>] /\ lastSaved = <<>>
       \/ \E l \in StoreLists :
            disk = [exists |-> TRUE, data |-> Encode(l)] /\ lastSaved = l

StoreNext ==
    \/ saveOutcome = "none" /\ SaveCreate
          /\ UNCHANGED <<engineVars, rwVars, tuiVars, auxVars>>
    \/ saveOutcome = "none" /\ SaveRemoved
          /\ UNCHANGED <<engineVars, rwVars, tuiVars, auxVars>>
    \/ SaveEncode /\ UNCHANGED <<engineVars, rwVars, tuiVars, auxVars>>
    \/ SaveCrash /\ UNCHANGED <<engineVars, rwVars, tuiVars, auxVars>>
    \/ LoadStep /\ UNCHANGED <<engineVars, rwVars, tuiVars, auxVars>>

StoreSpec == StoreInit /\ [][StoreNext]_vars

\* ---------------------------------------------------------------------------
\* RemoveTaskState alone: the caller holds any list of at most MaxTasks
\* entries (two entries may have the same hash) and calls it with the hash of
\* a task, or with a hash no entry has (0).
RemoveLists == UNION {[1..n -> StoreStates] : n \in 0..MaxTasks}

RemoveStep ==
    /\ \E h \in 0..MaxTasks :
         probe' = [op |-> "RemoveTaskState", arg |-> States, h |-> h,
                   val |-> RemoveTaskState(States, h)]
    /\ UNCHANGED <<engineVars, storeVars, rwVars, tuiVars, newVars>>

RemoveInit ==
    /\ now = 0
    /\ States \in RemoveLists
    /\ srState = 0
    /\ Duration = 0
    /\ EndTime = 0
    /\ Paused = FALSE
    /\ Completed = FALSE
    /\ Ticker = 0
    /\ tickers = [t \in Workers |-> [active |-> FALSE, C |-> 0]]
    /\ eventCh = <<>>
    /\ stopCh = "open"
    /\ mutex = "free"
    /\ wpc = [w \in Workers |-> "none"]
    /\ wsel = [w \in Workers |-> 0]
    /\ nSpawned = 0
    /\ reading = FALSE
    /\ hist = InitHist
    /\ InitRest

RemoveNext == RemoveStep

RemoveSpec == RemoveInit /\ [][RemoveNext]_vars

\* ---------------------------------------------------------------------------
\* The rewriter alone: one rewrite of any document of at most MaxDocLen bytes.
RewriteInit ==
    /\ InitEngine({<<ShortBox, 0>>}, {TRUE})
    /\ InitStoreIdle
    /\ InitTuiIdle
    /\ probe = NoProbe
    /\ InitNewIdle
    /\ file \in Docs
    /\ rwOrig = file
    /\ rwRes = NoRewrite

RewriteNext ==
    \/ DoUpdateMarkdown /\ UNCHANGED <<engineVars, storeVars, tuiVars, auxVars>>
    \/ DoMarkTaskAsCompleted /\ UNCHANGED <<engineVars, storeVars, tuiVars, auxVars>>

RewriteSpec == RewriteInit /\ [][RewriteNext]_vars

\* ---------------------------------------------------------------------------
\* The TUI: the program starts with no state file; keys are pressed, the
\* runner's worker runs, time passes, the program quits and is started again.
TuiInit ==
    /\ now = 0
    /\ States = <<>>
    /\ srState = 0
    /\ Duration = 0
    /\ EndTime = 0
    /\ Paused = FALSE
    /\ Completed = FALSE
    /\ Ticker = 0
    /\ tickers = [t \in Workers |-> [active |-> FALSE, C |-> 0]]
    /\ eventCh = <<>>
    /\ stopCh = "open"
    /\ mutex = "free"
    /\ wpc = [w \in Workers |-> "none"]
    /\ wsel = [w \in Workers |-> 0]
    /\ nSpawned = 0
    /\ reading = FALSE
    /\ hist = InitHist
    /\ InitRest

TuiNext ==
    \/ \E h \in Tasks : KeyEnterList(h) /\ UNCHANGED auxVars
    \/ KeyQuitActive /\ UNCHANGED auxVars
    \/ KeyEnterActive /\ UNCHANGED auxVars
    \/ KeyEnterDone /\ UNCHANGED auxVars
    \/ KeyQuitList /\ UNCHANGED auxVars
    \/ SessionTickCmd /\ UNCHANGED auxVars
    \/ HandleTickMsg /\ UNCHANGED auxVars
    \/ TeaTickFires /\ UNCHANGED auxVars
    \/ HandleSessionCompletedMsg /\ UNCHANGED auxVars
    \/ Restart /\ UNCHANGED auxVars
    \/ \E w \in Workers : proc = "up" /\ WorkerStep(w) /\ Idle
    \/ Advance(MaxTime) /\ Idle

TuiSpec == TuiInit /\ [][TuiNext]_vars

\* The worker runs, the clock ticks, commands and the update loop run; no key
\* has to be pressed.
FairTuiSpec ==
    /\ TuiSpec
    /\ \A w \in Workers : WF_vars(proc = "up" /\ WorkerStep(w) /\ Idle)
    /\ WF_vars(Advance(MaxTime) /\ Idle)
    /\ WF_vars(SessionTickCmd /\ UNCHANGED auxVars)
    /\ WF_vars(HandleTickMsg /\ UNCHANGED auxVars)
    /\ WF_vars(TeaTickFires /\ UNCHANGED auxVars)
    /\ WF_vars(HandleSessionCompletedMsg /\ UNCHANGED auxVars)

\* ---------------------------------------------------------------------------
\* ParseTimeBox alone: one call on any timebox string of at most MaxBoxLen
\* tokens.
ParseInit == TuiInit

ParseNext == ParseStep

ParseSpec == ParseInit /\ [][ParseNext]_vars

\* ---------------------------------------------------------------------------
\* The commit watcher alone: one watcher, at most MaxPolls polls of at most
\* MaxPollLen lines each, at most MaxStops calls of Stop, and a receiver
\* that takes values from the two channels when it likes.
WatchInit == TuiInit

WatchRest ==
    UNCHANGED <<engineVars, storeVars, rwVars, tuiVars, probe, mem, cli, tw,
                taskString>>

WatchNext ==
    \/ GwStart /\ WatchRest
    \/ GwStop /\ WatchRest
    \/ GwStopped /\ WatchRest
    \/ GwPoll /\ WatchRest
    \/ GwSendErr /\ WatchRest
    \/ GwLoop /\ WatchRest
    \/ GwRecvCommit /\ WatchRest
    \/ GwRecvError /\ WatchRest

WatchSpec == WatchInit /\ [][WatchNext]_vars

\* The worker goroutine is scheduled; nothing obliges the receiver.
FairWatchSpec ==
    /\ WatchSpec
    /\ WF_vars(GwStopped /\ WatchRest)
    /\ WF_vars(GwSendErr /\ WatchRest)
    /\ WF_vars(GwLoop /\ WatchRest)

\* ---------------------------------------------------------------------------
\* The two state stores side by side: a caller makes the same calls and the
\* same changes to its list with an InMemoryStateStore and with a
\* FileStateStore whose file is not there at first; at most MaxTasks entries
\* are created.
MemInit == TuiInit

MemNext ==
    \/ \E h \in 1..MaxTasks : CallerAppend(h)
    \/ \E i \in 1..MaxTasks : CallerClose(i)
    \/ BothSave
    \/ BothLoad
    \/ \E h \in 1..MaxTasks : BothRemove(h)

MemSpec == MemInit /\ [][MemNext]_vars

\* ---------------------------------------------------------------------------
\* The command-line driver: runs of the program on a document of MaxTasks
\* tasks, with signals, failing saves and failing rewrites, the ledger file
\* absent at first.
CliInit == TuiInit

CliNext ==
    \/ CliClock
    \/ CliStart
    \/ CliSignal
    \/ CliEnter
    \/ CliFinish
    \/ CliRestart

CliSpec == CliInit /\ [][CliNext]_vars

\* ---------------------------------------------------------------------------
\* The line rewriter alone: one call sequence on any document of at most
\* MaxDocLen bytes.
LineInit == RewriteInit

LineNext ==
    \/ DoReplaceLines /\ UNCHANGED <<engineVars, storeVars, tuiVars, newVars>>
    \/ DoLineIndexOfByte /\ UNCHANGED <<engineVars, storeVars, tuiVars, newVars>>

LineSpec == LineInit /\ [][LineNext]_vars

\* ---------------------------------------------------------------------------
\* The duration annotation of a rewrite. A time.Duration counts units of which
\* DurSecond make a second, so that a duration can have a part of a second.
DurSecond == 2

MaxDur == 7400

\* int(totalDuration.Hours())
Hours(d) == d \div (3600 * DurSecond)

\* int(totalDuration.Minutes())
Minutes(d) == d \div (60 * DurSecond)

\* int(totalDuration.Seconds())
Seconds(d) == d \div DurSecond

\* A mutation of durationStr: the minutes are not reduced modulo 60.
durationStrAllMinutes(d) == <<Hours(d), Minutes(d), Seconds(d) % 60>>

\* the numbers of fmt.Sprintf("⏱️ %dh %dm %ds", hours, minutes, seconds)
durationStr(d) == <<Hours(d), Minutes(d) % 60, Seconds(d) % 60>>

\* One rewrite of a document of one task with the total duration d, by either
\* function; the probe keeps the numbers of the annotation it writes.
DoAnnotate ==
    /\ probe.op = "none"
    /\ \E d \in 0..MaxDur, byParser \in BOOLEAN :
         LET r == IF byParser THEN UpdateMarkdown(file, d)
                  ELSE MarkTaskAsCompleted(file, d, 0)
         IN /\ file' = r.content
            /\ probe' = [op |-> IF byParser THEN "UpdateMarkdown"
                                ELSE "MarkTaskAsCompleted",
                         arg |-> <<>>, h |-> d,
                         val |-> IF d > 0 THEN durationStr(d) ELSE <<>>]
    /\ UNCHANGED <<rwOrig, rwRes>>

AnnotInit ==
    /\ InitEngine({<<ShortBox, 0>>}, {TRUE})
    /\ InitStoreIdle
    /\ InitTuiIdle
    /\ probe = NoProbe
    /\ InitNewIdle
    /\ file = TargetLine \o <<NL>>
    /\ rwOrig = file
    /\ rwRes = NoRewrite

AnnotNext == DoAnnotate /\ UNCHANGED <<engineVars, storeVars, tuiVars, newVars>>

AnnotSpec == AnnotInit /\ [][AnnotNext]_vars

\* ---------------------------------------------------------------------------
\* gitutil.GetCommitsSince. The combined output of the command is a sequence
\* of bytes: "a" is a byte of text, " " a space, "n" stands for the words
\* "not a git repository" in lower case and "N" for the same words with a
\* letter in upper case.
MaxOutLen == 4

GitBytes == {"a", " ", NL, "n", "N"}

GitOutputs == UNION {[1..n -> GitBytes] : n \in 0..MaxOutLen}

\* A mutation of ToLower: the case is kept.
ToLowerKeep(s) == s

\* strings.ToLower
ToLower(s) == [i \in 1..Len(s) |-> IF s[i] = "N" THEN "n" ELSE s[i]]

\* strings.Contains(s, "not a git repository")
ContainsNotRepo(s) == \E i \in 1..Len(s) : s[i] = "n"

\* strings.TrimSpace
TrimSpace(s) == Trim(s, {" ", NL})

\* the errors of GetCommitsSince: none, "not a git repository: ..." and
\* "error running git log: ..."
ErrNone == 0

ErrNotRepo == 1

ErrGitLog == 2

\* gitutil.GetCommitsSince, for the output and the error of the runner
GetCommitsSince(outputBytes, failed) ==
    IF failed
    THEN IF ContainsNotRepo(ToLower(outputBytes))
         THEN [err |-> ErrNotRepo, commits |-> <<>>]
         ELSE [err |-> ErrGitLog, commits |-> <<>>]
    ELSE IF ContainsNotRepo(ToLower(outputBytes))
         THEN [err |-> ErrNotRepo, commits |-> <<>>]
         ELSE [err |-> ErrNone,
               commits |-> SelectSeq(SplitOn(TrimSpace(outputBytes), NL, <<>>),
                                     LAMBDA line : line # <<>>)]

\* A caller gets the commits from a runner that returns any output, with or
\* without an error; the probe keeps the output with the commits returned.
DoGetCommitsSince ==
    /\ probe.op = "none"
    /\ \E outputBytes \in GitOutputs, failed \in BOOLEAN :
         LET r == GetCommitsSince(outputBytes, failed)
         IN probe' = [op |-> "GetCommitsSince",
                      arg |-> <<outputBytes, r.commits>>,
                      h |-> IF failed THEN 1 ELSE 0,
                      val |-> <<r.err>>]
    /\ UNCHANGED <<engineVars, storeVars, rwVars, tuiVars, newVars>>

GitInit == TuiInit

GitNext == DoGetCommitsSince

GitSpec == GitInit /\ [][GitNext]_vars

\* ---------------------------------------------------------------------------
\* The line of a completed task. A task line is a sequence of tokens: "-" the
\* list marker, "u" the unchecked checkbox "[ ]", "x" the checked one "[x]",
\* "a" a word, "c" the delimiter of a code span, "e" that of an emphasis and
\* "@" a timebox token. The descriptions are well-formed inline text.
DescTexts ==
    {<<"a">>, <<"c", "a", "c">>, <<"e", "a", "e">>, <<"a", " ", "a">>}

TimeBoxes == {<<>>, <<"@">>}

\* "- [ ] description" or "- [ ] description @timebox"
LineOf(desc, timeBox) ==
    <<"-", " ", "u", " ">> \o desc
        \o (IF timeBox = <<>> THEN <<>> ELSE <<" ">> \o timeBox)

TaskLines == {LineOf(d, b) : d \in DescTexts, b \in TimeBoxes}

\* extractTextSkippingNode: the text segments of the item's nodes, without
\* the delimiters of the code spans and emphases around them
TextOf(desc) == SelectSeq(desc, LAMBDA tok : tok \notin {"c", "e"})

\* parser.ExtractTask of the line LineOf(desc, timeBox); OriginalLine and
\* LineNumber are not set
ExtractTask(desc, timeBox) ==
    [Description |-> TextOf(desc), TimeBox |-> timeBox]

TaskValues == {ExtractTask(d, b) : d \in DescTexts, b \in TimeBoxes}

\* the first occurrence of old in line, 0 if there is none
IndexOf(line, old) ==
    IF \E i \in 1..Len(line) : line[i] = old
    THEN CHOOSE i \in 1..Len(line) :
            line[i] = old /\ \A j \in 1..(i - 1) : line[j] # old
    ELSE 0

\* strings.Replace(line, old, new, 1)
Replace(line, old, new) ==
    LET i == IndexOf(line, old)
    IN IF i = 0 THEN line ELSE [line EXCEPT ![i] = new]

\* rewrite.isTaskLine for a line of TaskLines: the text after the checkbox,
\* without the timebox, is compared with the description
isTaskLineOf(desc, taskDesc) == desc = taskDesc

\* parser.UpdateMarkdown puts updatedTask.String() in the place of the line
\* of the task it was given.
DoUpdateLine ==
    /\ probe.op = "none"
    /\ \E desc \in DescTexts, timeBox \in TimeBoxes :
         probe' = [op |-> "parser.UpdateMarkdown",
                   arg |-> <<LineOf(desc, timeBox),
                             taskString[ExtractTask(desc, timeBox)]>>,
                   h |-> 0, val |-> <<0>>]
    /\ UNCHANGED <<engineVars, storeVars, rwVars, tuiVars, mem, gw, cli, tw,
                   taskString>>

\* rewrite.MarkTaskAsCompleted for the description of the parsed task: the
\* line is found or not (val 1); a line found has its marker replaced.
DoMarkLine ==
    /\ probe.op = "none"
    /\ \E desc \in DescTexts, timeBox \in TimeBoxes :
         LET line == LineOf(desc, timeBox)
             found == isTaskLineOf(desc, ExtractTask(desc, timeBox).Description)
         IN probe' = [op |-> "rewrite.MarkTaskAsCompleted",
                      arg |-> <<line, IF found THEN Replace(line, "u", "x")
                                      ELSE line>>,
                      h |-> 0, val |-> <<IF found THEN 0 ELSE 1>>]
    /\ UNCHANGED <<engineVars, storeVars, rwVars, tuiVars, mem, gw, cli, tw,
                   taskString>>

\* Task.String is any function of the task's fields to a line of a completed
\* task.
RenderInit ==
    /\ InitEngine({<<ShortBox, 0>>}, {TRUE})
    /\ InitStoreIdle
    /\ InitRwIdle
    /\ InitTuiIdle
    /\ probe = NoProbe
    /\ mem = NewInMemoryStateStore /\ gw = NewGitWatcher /\ cli = NoCli
    /\ tw = NoTw
    /\ taskString \in [TaskValues -> {Replace(l, "u", "x") : l \in TaskLines}]

RenderNext ==
    \/ DoUpdateLine
    \/ DoMarkLine

RenderSpec == RenderInit /\ [][RenderNext]_vars

\* ---------------------------------------------------------------------------
\* The driver's timer worker alone: one task, any timebox of at most MaxTicks
\* ticks, at most MaxPolls polls, Enter pressed at any moment.
StopInit == TuiInit

StopNext ==
    \/ TwStart
    \/ TwTick
    \/ TwTickDone
    \/ TwPoll
    \/ TwPollDone
    \/ TwEnter
    \/ TwWait

StopSpec == StopInit /\ [][StopNext]_vars

\* ------------------------------------------------------------------ claims
\* C1: for a started session, however external Complete() calls interleave
\* with the tick worker's timer-driven Complete(), exactly one Completed event
\* is put on the event stream (and the open last segment is closed once).
C1_ExactlyOneCompleted ==
    (Completed /\ hist.stopCloses = 0)
        => (hist.completed = 1 /\ hist.completeCloses <= 1)

\* C3: a Running session whose time is up (summed segment time reaches
\* Duration, or now is after EndTime) eventually emits Completed and has its
\* last segment closed, unless a call from outside pauses, stops or completes
\* it first.
C3_TimeUpCompletes ==
    (Running /\ isTimeUp)
        ~> \/ hist.completed >= 1 /\ ~IsActive(Segs)
           \/ Paused
           \/ hist.stopCloses > 0
           \/ Completed /\ ~hist.timerCompleted

\* C5: once Stop() or Complete() has returned, every tick worker terminates,
\* so Wait() returns (unless a later call holds the mutex).
C5_WorkersTerminate ==
    (stopCh = "closed" /\ mutex = "free") ~> (WaitReturns \/ mutex # "free")

\* C6: whatever the number of Stop() calls on a non-terminal session, exactly
\* one Stopped event is put on the event stream, and Stop never marks the
\* session Completed.
C6_ExactlyOneStopped ==
    hist.stopCloses >= 1
        => (hist.stopped = 1 /\ hist.stopCloses = 1)

C7_SaveAllOrNothing ==
    saveOutcome \in {"error", "crash"}
        => Load(disk) \in {[err |-> FALSE, states |-> lastSaved],
                           [err |-> FALSE, states |-> saveArg]}

\* The bytes of doc before its line i, and after it (lines counted from 0,
\* each ending with its newline).
RECURSIVE AfterLines(_, _)
AfterLines(doc, i) ==
    IF i = 0 \/ doc = <<>> THEN doc
    ELSE AfterLines(Tail(doc), IF Head(doc) = NL THEN i - 1 ELSE i)

BeforeLine(doc, i) == SubSeq(doc, 1, Len(doc) - Len(AfterLines(doc, i)))

IsPrefix(p, q) == Len(p) <= Len(q) /\ SubSeq(q, 1, Len(p)) = p

IsSuffix(p, q) == Len(p) <= Len(q) /\ SubSeq(q, Len(q) - Len(p) + 1, Len(q)) = p

\* C8: a rewrite for task T replaces only T's line: the bytes before it and
\* the bytes after it are in the output unchanged, including whether the
\* last line ends with a newline.
C8_OtherLinesKept ==
    (rwRes.op # "none" /\ Len(Matches(rwOrig)) = 1)
        => LET i == Matches(rwOrig)[1]
           IN /\ IsPrefix(BeforeLine(rwOrig, i), file)
              /\ IsSuffix(AfterLines(rwOrig, i + 1), file)

\* C9: when no task of the document matches the target, the rewrite returns
\* an error and does not write the file.
C9_NoMatchIsError ==
    (rwRes.op # "none" /\ Matches(rwOrig) = <<>>)
        => (rwRes.err /\ ~rwRes.wrote /\ file = rwOrig)

\* At most one segment of the ledger entry has no End, and it is the last.
OneOpenLast(segs) ==
    \A i \in 1..Len(segs) : segs[i].End = NoEnd => i = Len(segs)

\* C2: in every reachable state of every task's ledger, after any engine
\* calls and driver steps (start a task, quit, save, restart and reload, start
\* the same task again), at most one segment is open and it is the last one.
C2_OneOpenSegment ==
    \A i \in 1..Len(States) : OneOpenLast(States[i].Segments)

\* C4: in the TUI, once the timebox of the running session has expired, with
\* the clock still to tick, the model eventually leaves ViewTimerActive (for
\* ViewTimerDone when no key is pressed).
C4_TimerDoneShown ==
    (/\ proc = "up" /\ ActiveView = "ViewTimerActive"
     /\ srState # 0 /\ isTimeUp /\ now < MaxTime)
        ~> (ActiveView # "ViewTimerActive")

\* C11: once Pause() has returned (Paused is on the event stream), no Tick is
\* put on the stream until Resume() is called: in the unread events every
\* Tick that follows a Paused has a Resumed between them.
C11_NoTickWhilePaused ==
    \A i, j \in 1..Len(eventCh) :
        (i < j /\ eventCh[i] = "Paused" /\ eventCh[j] = "Tick")
            => \E k \in (i + 1)..(j - 1) : eventCh[k] = "Resumed"

\* C12: Completed and Stopped are absorbing: once a Completed or Stopped
\* event has been emitted for a started session, no call and no worker step
\* emits a further event, appends or closes a segment, or changes the Paused
\* and Completed flags.
C12_TerminalAbsorbing ==
    [][(hist.started /\ hist.completed + hist.stopped >= 1)
          => /\ States' = States
             /\ Paused' = Paused
             /\ Completed' = Completed
             /\ Len(eventCh') <= Len(eventCh)]_vars

\* C13: Start() on a session that is Running, Completed or Stopped changes
\* nothing: no ticker and no tick worker is created. (Only Start makes a
\* ticker while the Paused flag is down.)
C13_StartIsNoOp ==
    [][((Running \/ Completed \/ stopCh = "closed") /\ ~Paused)
          => (nSpawned' = nSpawned /\ Ticker' = Ticker)]_vars

\* C14: Pause() on a session that is not Running (never started, Completed
\* or Stopped) changes no state: no step from such a state raises the Paused
\* flag.
C14_PauseOnlyRunning ==
    [][(~Running /\ ~Paused) => ~Paused']_vars

\* The last event put on the stream, not yet received, is ev.
LastEvent(ev) == eventCh # <<>> /\ eventCh[Len(eventCh)] = ev

\* C15: Resume() has an effect only in Paused: on a started session that
\* was paused and then stopped (Stopped is the last event) it changes
\* nothing, so no step takes the Paused flag down or appends a segment.
C15_ResumeOnlyPaused ==
    [][(hist.started /\ Paused /\ LastEvent("Stopped"))
          => (Paused' /\ Len(Segs') = Len(Segs))]_vars

\* A call that writes the segment list can run now: Pause and Complete close
\* the open segment, Resume appends one.
SegWriteEnabled ==
    mutex = "free" /\ ~Completed /\ (IsActive(Segs) \/ Paused)

\* C16: every read or write of the segment list happens with the session
\* mutex held, so no thread reads the list while another may write it: while
\* a tick worker is in its time-up check over the segments, no writing call
\* can run.
C16_SegmentsGuarded ==
    \A w \in Workers :
        (wpc[w] = "check" /\ Duration > 0) => ~SegWriteEnabled

\* C17 as stated: Remaining() is always between 0 and Duration.
C17_RemainingWithinDuration ==
    probe.op = "Remaining" => (probe.val[1] >= 0 /\ probe.val[1] <= Duration)

\* C17: Remaining() and TotalElapsed() leave the segment list, the flags and
\* the event stream (all of the runner) unchanged; Remaining() is never
\* negative, is at most Duration for a duration-based session and at most the
\* time left until EndTime for a time-range session (whose Duration is 0),
\* and is 0 once the session is Completed.
C17_QueriesPure ==
    [][probe' # probe
          => /\ UNCHANGED engineVars
             /\ probe'.op = "Remaining"
                  => LET v == probe'.val[1]
                     IN /\ v >= 0
                        /\ Duration > 0 => v <= Duration
                        /\ Duration = 0 => (v <= EndTime - now \/ v = 0)
                        /\ Completed => v = 0]_vars

\* C17: Remaining() was asked of a session that ran for a second, was
\* paused and resumed, and answered with the second that is left.
C17_Witness ==
    /\ probe.op = "Remaining"
    /\ probe.val = <<ShortBox - 1>>
    /\ Duration = ShortBox
    /\ hist.cycles >= 1
    /\ hist.runTime = 1

KeptIndex(list, h, j) ==
    CHOOSE i \in 1..Len(list) :
        /\ list[i].TaskHash # h
        /\ Cardinality({k \in 1..i : list[k].TaskHash # h}) = j

\* C19: RemoveTaskState(list, h) returns exactly the entries of list whose
\* hash differs from h, in their order, and leaves the caller's list as it
\* was; when no entry has hash h the result equals the input.
C19_RemoveFilters ==
    probe.op = "RemoveTaskState"
        => LET list == probe.arg
               out == probe.val
               h == probe.h
           IN /\ States = list
              /\ Len(out) = Cardinality({i \in 1..Len(list) : list[i].TaskHash # h})
              /\ \A j \in 1..Len(out) : out[j] = list[KeptIndex(list, h, j)]
              /\ (\A i \in 1..Len(list) : list[i].TaskHash # h) => out = list

\* C19: from a list of two entries with the same hash, both were removed.
C19_Witness ==
    /\ probe.op = "RemoveTaskState"
    /\ Len(probe.arg) = 2
    /\ probe.arg[1].TaskHash = probe.h
    /\ probe.arg[2].TaskHash = probe.h
    /\ probe.val = <<>>

\* C20: when the ledger file exists but does not hold a complete encoded
\* list (malformed, partially written, empty), Load returns an error; it
\* returns the empty list with no error only when no ledger was persisted.
C20_LoadErrorsOnBadFile ==
    (savePc = "idle" /\ disk.exists
        /\ \A l \in StoreLists : disk.data # Encode(l))
        => Load(disk).err

\* C26: when the program went down through a quit key (q or ctrl+c), the
\* saved ledger holds no entry whose last segment is open.
C26_QuitPersistsNoOpenSegment ==
    (proc = "down" /\ ActiveView = "ViewQuitting")
        => \A i \in 1..Len(Load(disk).states) :
               ~IsActive(Load(disk).states[i].Segments)

\* C28: while the timer view shows a running session, the saved ledger holds
\* the task's entry with the segments the session has, the last one open in
\* the ledger.
C28_OpenSegmentPersisted ==
    (proc = "up" /\ ActiveView = "ViewTimerActive" /\ SessionState # 0)
        => LET h == States[SessionState].TaskHash
               saved == Load(disk).states
               d == FindState(saved, h)
           IN /\ d # 0
              /\ IsActive(saved[d].Segments)
              /\ Len(saved[d].Segments) = Len(States[SessionState].Segments)

\* the number of lines of the document that are equal to line
CountLines(doc, line) ==
    LET lines == ScanLines(doc)
    IN Cardinality({i \in 1..Len(lines) : lines[i] = line})

\* C30: after a rewrite that succeeded on a document with one matching task,
\* the document has one commit line for each commit that was passed and one
\* commit header when there is a commit; with no commit it has neither.
C30_CommitsListed ==
    (rwRes.op # "none" /\ ~rwRes.err /\ rwRes.wrote /\ Len(Matches(rwOrig)) = 1)
        => /\ CountLines(file, <<"c">>) = rwRes.commits
           /\ CountLines(file, <<"h">>) = (IF rwRes.commits > 0 THEN 1 ELSE 0)

\* C29: ParseTimeBox returns either an error with a zero duration and the
\* zero end time, or no error with exactly one of a duration > 0 and a
\* non-zero end time; the empty string, "@", "0m" and "0h0m" are errors.
C29_ExactlyOneOrError ==
    probe.op = "ParseTimeBox"
        => LET dur == probe.val[1]
               end == probe.val[2]
               err == probe.val[3]
           IN /\ \/ err = 1 /\ dur = 0 /\ end = 0
                 \/ err = 0 /\ dur > 0 /\ end = 0
                 \/ err = 0 /\ dur = 0 /\ end # 0
              /\ probe.arg \in {<<>>, <<"@">>, <<"0", "m">>, <<"@", "0", "m">>,
                                <<"0", "h", "0", "m">>, <<"@", "0", "h", "0", "m">>}
                   => err = 1

\* C29: "@1h1m" was parsed to 61 minutes and no end time.
C29_Witness ==
    /\ probe.op = "ParseTimeBox"
    /\ probe.arg = <<"@", "1", "h", "1", "m">>
    /\ probe.val = <<Hour + 1, 0, 0>>

\* C22: no two values sent on Commits() begin with the same HashLen bytes,
\* and the values sent are exactly the first line the worker met for each
\* such prefix, in the order they were met.
C22_NoDuplicateKeys ==
    /\ \A i, j \in 1..Len(gw.sent) :
          i # j => Prefix(gw.sent[i]) # Prefix(gw.sent[j])
    /\ gw.sent = gw.firsts

\* C22: two polls overlapped: lines with the same prefix were met more than
\* once, and two values with different prefixes have been sent.
C22_Witness ==
    /\ gw.polls >= 2
    /\ gw.pc = "select"
    /\ gw.sent = <<LineA \o <<"x">>, LineB \o <<"x">> >>
    /\ gw.lastHashes = {LineA, LineB}

C24_StopNeverPanics == ~gw.panicked

\* C21: after any sequence of Save, Load, RemoveTaskState and in-place
\* changes, the list the caller holds with the memory store has the same
\* values as the list it holds with the file store.
C21_MemoryMatchesFile == Deref(mem.caller) = States

\* C25: when the process has exited through the signal handler, the
\* handler's save succeeded and the saved ledger holds the task's entry with
\* its last segment closed.
C25_ExitOnlyAfterSave ==
    cli.pc = "exited"
        => /\ ~cli.saveErr
           /\ LET saved == Load(disk).states
                  d == FindState(saved, cli.hash)
              IN d # 0 /\ ~IsActive(saved[d].Segments)

\* C27: when the driver returns the rewrite's error and its last Save wrote
\* the list it was given, an entry of the task that was in the saved ledger
\* is still in it.
C27_RemovedOnlyAfterRewrite ==
    [][(/\ cli.pc = "closed"
        /\ cli'.pc = "done"
        /\ cli'.err
        /\ disk' = SaveTo(Load(disk').states)
        /\ FindState(Load(disk).states, cli.hash) # 0)
        => FindState(Load(disk').states, cli.hash) # 0]_vars

\* C39: whenever the engine is Paused or Completed the ledger entry is not
\* active (State.IsActive() is false: its last segment, if any, is closed),
\* and whenever it is Running its last segment is open.
C39_StateMatchesLedger ==
    /\ (Paused \/ Completed) => ~IsActive(Segs)
    /\ Running => IsActive(Segs)

\* C39: a session was paused, resumed and paused again: two closed segments.
C39_Witness ==
    /\ Paused
    /\ hist.cycles >= 1
    /\ Len(Segs) = 2
    /\ ~IsActive(Segs)
    /\ now >= 2

\* C34: on a document of n lines, CopyLinesUntil(s), ReplaceLines(s, e, new)
\* and CopyRemainingLines() leave lines 0..s-1, then the lines of new, then
\* lines e+1..n-1, for all 0 <= s <= e, also when e is at or past the last
\* line. (The lines are those the scanner yields; each is written with a
\* newline after it.)
C34_ReplaceInserts ==
    probe.op = "ReplaceLines"
        => LET lines == ScanLines(rwOrig)
               n == Len(lines)
               s == probe.h
               e == probe.val[1]
           IN file = WriteLines(<<>>, SubSeq(lines, 1, IF s < n THEN s ELSE n)
                                        \o probe.arg
                                        \o SubSeq(lines, e + 2, n))

\* C35: for a byte offset of the content, LineIndexOfByte is the number of
\* newline bytes strictly before the offset.
C35_LineOfByte ==
    probe.op = "LineIndexOfByte"
        => probe.val[1] = Cardinality({i \in 1..probe.h : rwOrig[i] = NL})

\* C35: the last byte of "t\n\no" is on line 2.
C35_Witness ==
    /\ probe.op = "LineIndexOfByte"
    /\ rwOrig = <<"t", NL, NL, "o">>
    /\ probe.h = 3
    /\ probe.val = <<2>>


\* C31: a rewrite with a zero total duration writes no duration annotation; a
\* rewrite with a positive total duration d writes exactly one, "Hh Mm Ss",
\* with 0 <= M < 60, 0 <= S < 60 and H*3600 + M*60 + S equal to d truncated
\* to whole seconds.
C31_Annotation ==
    probe.op \in {"UpdateMarkdown", "MarkTaskAsCompleted"}
        => LET d == probe.h
               written == Cardinality({i \in 1..Len(file) : file[i] = "d"})
           IN /\ (d = 0) => written = 0
              /\ (d > 0) =>
                   /\ written = 1
                   /\ Len(probe.val) = 3
                   /\ probe.val[1] >= 0
                   /\ probe.val[2] \in 0..59
                   /\ probe.val[3] \in 0..59
                   /\ probe.val[1] * 3600 + probe.val[2] * 60 + probe.val[3]
                        = d \div DurSecond

C31_Witness ==
    /\ probe.op = "MarkTaskAsCompleted"
    /\ probe.h = 3661 * DurSecond + 1
    /\ probe.val = <<1, 1, 1>>
    /\ file = <<"x", NL, NL, "d", NL>>


\* C36: no engine call blocks forever, also when the event buffer is full
\* because the consumer is not reading; in particular no call waits on the
\* event channel while it holds the session mutex.
C36_NoSendUnderMutex == mutex = "free"


\* C38: the ledger list never holds two entries with the same task hash: from
\* a loaded list with unique hashes, every sequence of driver steps (start a
\* new task, resume a task that has an entry, confirm completion, quit)
\* leaves the hashes unique, in memory and in the file.
C38_UniqueHashes ==
    /\ \A i, j \in 1..Len(States) :
          States[i].TaskHash = States[j].TaskHash => i = j
    /\ LET saved == Load(disk).states
       IN \A i, j \in 1..Len(saved) :
             saved[i].TaskHash = saved[j].TaskHash => i = j

\* a later run has resumed the task of the entry an earlier run left
C38_Witness ==
    /\ cli.runs >= 1
    /\ cli.pc = "running"
    /\ Len(States) = 1
    /\ States[1].TaskHash = cli.hash
    /\ Len(States[1].Segments) = 2
    /\ Load(disk).states = States


\* the output holds the words "not a git repository", in any case
SaysNotRepo(output) == \E i \in 1..Len(output) : output[i] \in {"n", "N"}

\* the lines of a text that are not empty, in their order
NonEmptyLines(text) ==
    SelectSeq(SplitOn(text, NL, <<>>), LAMBDA line : line # <<>>)

\* C33 as stated: GetCommitsSince returns an error whenever the command fails
\* or its output contains "not a git repository" in any case, the error of
\* that output being another one than that of a failure; otherwise it returns
\* exactly the non-empty lines of the output, in their order.
C33_LinesOfOutput ==
    probe.op = "GetCommitsSince"
        => LET output == probe.arg[1]
               commits == probe.arg[2]
               err == probe.val[1]
           IN /\ SaysNotRepo(output) => err = ErrNotRepo
              /\ (probe.h = 1 /\ ~SaysNotRepo(output)) => err = ErrGitLog
              /\ (probe.h = 0 /\ ~SaysNotRepo(output))
                    => (err = ErrNone /\ commits = NonEmptyLines(output))

\* C33 amended: the same errors; otherwise it returns exactly the non-empty
\* lines, in their order, of the output without the white space (spaces and
\* line ends) at its beginning and at its end.
C33_LinesOfTrimmedOutput ==
    probe.op = "GetCommitsSince"
        => LET output == probe.arg[1]
               commits == probe.arg[2]
               err == probe.val[1]
           IN /\ SaysNotRepo(output) => err = ErrNotRepo
              /\ (probe.h = 1 /\ ~SaysNotRepo(output)) => err = ErrGitLog
              /\ (probe.h = 0 /\ ~SaysNotRepo(output))
                    => /\ err = ErrNone
                       /\ commits = NonEmptyLines(TrimSpace(output))

C33_Witness ==
    /\ probe.op = "GetCommitsSince"
    /\ probe.h = 0
    /\ probe.arg = << <<" ", "a", NL, "a">>, << <<"a">>, <<"a">> >> >>
    /\ probe.val = <<ErrNone>>


\* C37: in the command-line driver, once Enter is pressed the timer worker
\* receives the stop signal and terminates, so wg.Wait() returns without
\* waiting for the timebox to expire, however the worker's handling of ticks
\* and polls interleaves with the main thread's non-blocking send: when
\* wg.Wait() has returned after an Enter pressed with time left, the worker
\* has received the signal.
C37_StopReachesWorker ==
    (tw.main = "done" /\ tw.enterLeft > 0) => tw.stopped


\* C32: the line of the completed task is the matched line with only its
\* checkbox marker changed from "[ ]" to "[x]"; every other character of the
\* line (code spans, emphasis, spacing, timebox token) is kept.
C32_OnlyMarkerChanged ==
    (probe.op \in {"parser.UpdateMarkdown", "rewrite.MarkTaskAsCompleted"}
     /\ probe.val = <<0>>)
        => LET line == probe.arg[1]
               written == probe.arg[2]
           IN /\ Len(written) = Len(line)
              /\ \A i \in 1..Len(line) :
                    written[i] = IF i = 3 THEN "x" ELSE line[i]

\* Whatever Task.String renders, parser.UpdateMarkdown alters a line: two
\* lines that differ have the same task value.
SomeLineAltered ==
    \E desc \in DescTexts, timeBox \in TimeBoxes :
        taskString[ExtractTask(desc, timeBox)]
            # Replace(LineOf(desc, timeBox), "u", "x")

====
